---- MODULE Spec2Model ----
(***************************************************************************)
(* Verification model of the lemon robot controller: the path segment      *)
(* engines (src/src/path.rs and src/src/path/), the angle resolution used  *)
(* by turn segments and the completion rules of turn and move segments.    *)
(*                                                                         *)
(* Units.  Angles are integer degrees (TAU = 360, PI = 180), angular       *)
(* velocities degrees per second, lengths centimetres, linear velocities   *)
(* centimetres per second, time is counted in control-loop ticks.          *)
(***************************************************************************)
EXTENDS Integers, Sequences, FiniteSets, TLC

VARIABLES
    impl,             \* which program is running: "stack", "queue" or "fn"
    segments,         \* Path.segments
    current_segment,  \* Path.current_segment, None or Some(seg)
    pid,              \* the shared angle PID handed to follow
    motors,           \* voltage of every motor (state::Motor power)
    odom,             \* the odometry reading of the running tick
    now,              \* the clock (Instant::now), in ticks
    pc,               \* "idle", "call" (a follow frame is pending) or "panic"
    out,              \* the command the last follow call returned
    hist,             \* history of the calls made on segments (ghost)
    args,             \* inputs of a function under check
    result            \* its results, None until it was applied

vars == <<impl, segments, current_segment, pid, motors, odom, now, pc, out,
          hist, args, result>>

pathVars == <<segments, current_segment, pid, motors, odom, now, pc, out, hist>>
fnVars == <<args, result>>

-----------------------------------------------------------------------------
(* Option and arithmetic helpers *)

None == <<>>
Some(x) == <<x>>
IsSome(o) == o # <<>>
Unwrap(o) == o[1]

Abs(x) == IF x < 0 THEN -x ELSE x
Min2(a, b) == IF a < b THEN a ELSE b
Max2(a, b) == IF a > b THEN a ELSE b

\* f64 `%`: the remainder has the sign of the dividend
RemTrunc(a, n) == IF a >= 0 THEN a % n ELSE -((-a) % n)
\* (a / n).floor() and (a / n).ceil() for n > 0
FloorDiv(a, n) == a \div n
CeilDiv(a, n) == -((-a) \div n)

\* f64::sqrt on the integer grid: the largest r with r*r <= n (0 for n <= 0)
RECURSIVE SqrtIter(_, _, _)
SqrtIter(n, lo, hi) ==
    IF lo >= hi THEN lo
    ELSE LET mid == (lo + hi + 1) \div 2
         IN IF mid * mid <= n THEN SqrtIter(n, mid, hi) ELSE SqrtIter(n, lo, mid - 1)
Sqrt(n) == IF n <= 0 THEN 0 ELSE SqrtIter(n, 0, Min2(n, 46340))

TAU == 360
PI == 180

-----------------------------------------------------------------------------
(* Heading resolution of turn segments *)

\* mutant: the last mapping step (delta > PI) is left out
optimise_target_heading_nowrap(heading, target) ==
    LET d0 == RemTrunc(target - heading, TAU)
        d1 == IF d0 < 0 THEN d0 + TAU ELSE d0
    IN heading + d1

\* path.rs optimise_target_heading
optimise_target_heading(heading, target) ==
    LET d0 == RemTrunc(target - heading, TAU)
        d1 == IF d0 < 0 THEN d0 + TAU ELSE d0
        d2 == IF d1 > PI THEN d1 - TAU ELSE d1
    IN heading + d2

\* path/turnto.rs TurnTo::start_follow, the closure map_to_closest_global
\* (angle is odom.angle())
map_to_closest_global(angle, target) ==
    LET t0 == RemTrunc(target, TAU)
        t1 == RemTrunc(t0 + TAU, TAU)
        t2 == IF t1 > PI THEN t1 - TAU ELSE t1
        num_angles == FloorDiv(angle, TAU)
        res == num_angles * TAU + t2
    IN IF Abs(res - angle) > PI THEN CeilDiv(angle, TAU) * TAU + t2 ELSE res

-----------------------------------------------------------------------------
(* Geometry: vec.rs and the f64 functions the segments use *)

\* a / b rounded to the nearest integer, b # 0
DivRound(a, b) ==
    LET n == IF b < 0 THEN -a ELSE a
        d == Abs(b)
    IN IF n >= 0 THEN (2 * n + d) \div (2 * d) ELSE -((2 * (-n) + d) \div (2 * d))

\* 1000 * sin(d degrees) for d in 0..90
SinTable ==
    <<0, 17, 35, 52, 70, 87, 105, 122, 139, 156, 174, 191, 208, 225, 242, 259,
      276, 292, 309, 326, 342, 358, 375, 391, 407, 423, 438, 454, 469, 485, 500,
      515, 530, 545, 559, 574, 588, 602, 616, 629, 643, 656, 669, 682, 695, 707,
      719, 731, 743, 755, 766, 777, 788, 799, 809, 819, 829, 839, 848, 857, 866,
      875, 883, 891, 899, 906, 914, 921, 927, 934, 940, 946, 951, 956, 961, 966,
      970, 974, 978, 982, 985, 988, 990, 993, 995, 996, 998, 999, 999, 1000, 1000>>

\* f64::sin and f64::cos of an angle in degrees, in thousandths
Sin(d) ==
    LET a == d % TAU
    IN IF a <= 90 THEN SinTable[a + 1]
       ELSE IF a <= 180 THEN SinTable[180 - a + 1]
       ELSE IF a <= 270 THEN -SinTable[a - 180 + 1]
       ELSE -SinTable[360 - a + 1]
Cos(d) == Sin(d + 90)

\* f64::atan2(y, x) in degrees for x >= 0, y >= 0: the table angle nearest to
\* the direction of (x, y)
Cross(y, x, a) == y * Cos(a) - x * Sin(a)
Nearer(y, x, lo) ==
    IF lo < 90 /\ -Cross(y, x, lo + 1) < Cross(y, x, lo) THEN lo + 1 ELSE lo
Atan2Q1(y, x) == Nearer(y, x, Cardinality({a \in 1..90 : Cross(y, x, a) >= 0}))

\* f64::atan2(y, x) in degrees, in -180..180; atan2(0, 0) is 0
Atan2(y, x) ==
    IF x = 0 /\ y = 0 THEN 0
    ELSE IF y >= 0 THEN (IF x >= 0 THEN Atan2Q1(y, x) ELSE 180 - Atan2Q1(y, -x))
    ELSE (IF x >= 0 THEN -Atan2Q1(-y, x) ELSE -(180 - Atan2Q1(-y, -x)))

\* the componentwise difference of two points
VecSubTrue(a, b) == <<a[1] - b[1], a[2] - b[2]>>

\* vec.rs impl Add for Vec2
VecAdd(a, b) == <<a[1] + b[1], a[2] + b[2]>>
\* vec.rs impl Sub for Vec2: the components are added
VecSub(a, b) == <<a[1] + b[1], a[2] + b[2]>>
\* vec.rs Vec2::dot, mag_sq, mag
VecDot(a, b) == a[1] * b[1] + a[2] * b[2]
VecMagSq(a) == VecDot(a, a)
VecMag(a) == Sqrt(VecMagSq(a))

-----------------------------------------------------------------------------
(* Odometry readings and the PID *)

\* what a segment reads from the odometry in one tick
Reading(h, w, p, sv) ==
    [heading |-> h, angular_velocity |-> w, position |-> p, side_velocities |-> sv]

ZeroReading == Reading(0, 0, <<0, 0>>, <<0, 0>>)

\* Pid::new: target 0, nothing accumulated
NewPid == [target |-> 0, integral_accum |-> 0, prev_err |-> 0]

\* Pid::set_target that leaves the accumulator and the previous error alone
PidSetTargetOnly(p, target) == [p EXCEPT !.target = target]

\* pid.rs Pid::set_target (change_target of the angle PID)
PidSetTarget(p, target) ==
    [p EXCEPT !.target = target, !.integral_accum = 0, !.prev_err = 0]

\* Pid::reset: the accumulator and the previous error are cleared
PidReset(p) == [p EXCEPT !.integral_accum = 0, !.prev_err = 0]

\* Pid::poll / AnglePid::step on the process variable pv, one tick after the
\* previous step: the accumulator takes the error (cleared when the error
\* changes sign), the previous error is remembered
PidStep(p, pv) ==
    LET err == p.target - pv
        flipped == (err < 0 /\ p.prev_err > 0) \/ (err > 0 /\ p.prev_err < 0)
    IN [p EXCEPT !.integral_accum = IF flipped THEN 0 ELSE @ + err,
                 !.prev_err = err]

\* the output of that step for gains kp, ki, kd in thousandths
PidOutput(p, pv, kp, ki, kd) ==
    LET err == p.target - pv
        q == PidStep(p, pv)
    IN (kp * err + ki * q.integral_accum + kd * (err - p.prev_err)) \div 1000

-----------------------------------------------------------------------------
(* Segments of path.rs *)

MinKinds == {"MinMoveTo", "MinMoveRel", "MinTurnTo", "MinTurnRel"}
ConcreteKinds == {"TurnTo", "MoveRel", "Ram"}

\* one record shape for every PathSegment implementor of path.rs:
\*   MinSegment::MoveTo(end), MinSegment::MoveRel(dist),
\*   MinSegment::TurnTo(target_heading), MinSegment::TurnRel(target_heading),
\*   TurnTo {start_heading, target_heading}, MoveRel {start, end, dist},
\*   Ram {pow, dur, start: t0}
\* id is the place of the segment in the constructor's list (0: made later),
\* nstart counts the calls of start on the segment (history)
Segment(kind) ==
    [kind |-> kind, id |-> 0, start |-> <<0, 0>>, end |-> <<0, 0>>, dist |-> 0,
     start_heading |-> 0, target_heading |-> 0, pow |-> 0, dur |-> 0, t0 |-> 0,
     nstart |-> 0]

\* path.rs TurnTo::start: resolve the target against the heading, retarget and
\* reset the angle PID.  Yields the segment and the PID after the call.
TurnToTargeted(seg, p, t) ==
    [seg |-> [seg EXCEPT !.target_heading = t], pid |-> PidReset(PidSetTarget(p, t))]
TurnToStart(seg, od, p) ==
    TurnToTargeted(seg, p, optimise_target_heading(od.heading, seg.target_heading))

\* path.rs TurnTo::follow: the PID is stepped on the heading
\* (gains of Pid::new(0.35, 0.035, 2.2) in thousandths)
Turning(pow, p) == [out |-> <<-pow, pow>>, pid |-> p]
TurnToFollow(seg, od, p) ==
    Turning(PidOutput(p, od.heading, 350, 35, 2200), PidStep(p, od.heading))

\* path.rs TurnTo::end_follow: Some(vec![]) when settled on the target
TurnToEndFollow(seg, od) ==
    IF Abs(od.heading - seg.target_heading) < 2 /\ Abs(od.angular_velocity) < 1
    THEN Some(<<>>)
    ELSE None

\* path.rs MinSegment::transform; the vector is returned in stack order (the
\* last element runs first)
MinSegmentTransform(seg, od) ==
    LET heading == od.heading
        opos == od.position
    IN CASE seg.kind = "MinTurnRel" ->
              <<[Segment("TurnTo") EXCEPT !.start_heading = heading,
                                          !.target_heading = heading + seg.target_heading]>>
         [] seg.kind = "MinTurnTo" ->
              <<[Segment("TurnTo") EXCEPT !.start_heading = heading,
                     !.target_heading = optimise_target_heading(heading, seg.target_heading)]>>
         [] seg.kind = "MinMoveTo" ->
              LET diff == <<seg.end[1] - opos[1], seg.end[2] - opos[2]>>
                  target_heading == Atan2(diff[2], diff[1])
                  len == Sqrt(diff[1] * diff[1] + diff[2] * diff[2])
              IN <<[Segment("MoveRel") EXCEPT !.start = opos, !.end = seg.end, !.dist = len],
                   [Segment("TurnTo") EXCEPT !.start_heading = heading,
                        !.target_heading = optimise_target_heading(heading, target_heading)]>>
         [] seg.kind = "MinMoveRel" ->
              <<[Segment("MoveRel") EXCEPT
                    !.start = opos,
                    !.end = <<opos[1] + DivRound(Cos(heading) * seg.dist, 1000),
                              opos[2] + DivRound(Sin(heading) * seg.dist, 1000)>>,
                    !.dist = seg.dist]>>

\* velocity_profile on the projected distance dist: the distance from the
\* closest end, the square-root ramp capped at 1, the floor 0.1 before halfway
ProfileVelocity(path_dist, dist, velocity) ==
    IF 2 * dist < path_dist THEN Max2(velocity, 100) ELSE velocity

ProfileRamp(path_dist, dist) ==
    ProfileVelocity(path_dist, dist,
        Min2(Sqrt((Max2(path_dist - Abs(path_dist - 2 * dist), 0) * 20000) \div 3), 1000))

\* a path_dist of 0 divides by zero: the projection is -inf, and the floor
\* applies, only when both of its terms are -inf
ProfileProjected(v, path, path_dist) ==
    IF path_dist = 0
    THEN (IF /\ (path[1] > 0 /\ v[1] < 0) \/ (path[1] < 0 /\ v[1] > 0)
             /\ (path[2] > 0 /\ v[2] < 0) \/ (path[2] < 0 /\ v[2] > 0)
          THEN 100 ELSE 0)
    ELSE ProfileRamp(path_dist, DivRound(VecDot(path, v), path_dist))

\* path.rs velocity_profile, in thousandths of the maximum velocity
\* (ACCEL = 1 / 1.5)
velocity_profile(start, end, path_dist, pos) ==
    ProfileProjected(VecSub(end, start), VecSub(pos, start), path_dist)

\* path.rs MoveRel::follow
BothSides(pow, p) == [out |-> <<pow, pow>>, pid |-> p]
MoveRelFollow(seg, od, p) ==
    BothSides(velocity_profile(seg.start, seg.end, seg.dist, od.position), p)

\* whether the product p * q exceeds k >= 0, without forming the product
ProductExceeds(p, q, k) ==
    IF p = 0 \/ q = 0 \/ (p > 0) # (q > 0) THEN FALSE ELSE Abs(q) > k \div Abs(p)

\* sixteen times the squared area of the triangle with sides a, b, c (Heron's
\* formula s (s - a) (s - b) (s - c) with s = (a + b + c) / 2) as the two
\* factors <<(a + b + c) (b + c - a), (a + c - b) (a + b - c)>>
Heron16(a, b, c) == <<(a + b + c) * (b + c - a), (a + c - b) * (a + b - c)>>

\* the numbers MoveRel::end_follow works with: the ideal heading, the three
\* sides of the triangle start, end, pos and sixteen times its squared area;
\* near_dist = 2 * area / base exceeds tol exactly when
\* the product of area16 exceeds 4 * tol^2 * base^2 (a negative product gives
\* a NaN, which compares false, and so does a base of 0)
MoveRelSides(ideal_heading, base, end_dist, start_dist) ==
    [ideal_heading |-> ideal_heading,
     base |-> base, end_dist |-> end_dist, start_dist |-> start_dist,
     area16 |-> Heron16(end_dist, start_dist, base)]

MoveRelGeometry(seg, od) ==
    MoveRelSides(
        optimise_target_heading(od.heading,
            Atan2(seg.end[2] - seg.start[2], seg.end[1] - seg.start[1])),
        VecMag(VecSub(seg.end, seg.start)),
        VecMag(VecSub(seg.end, od.position)),
        VecMag(VecSub(seg.start, od.position)))

\* the decisions of MoveRel::end_follow on those numbers: a drift in heading
\* (8 degrees) or off the line (0.10 m) hands back a MoveTo to the same end,
\* otherwise Some(vec![]) when stopped at the end or past it
MoveRelDecide(seg, od, g) ==
    IF Abs(od.heading - g.ideal_heading) > 8
    THEN Some(<<[Segment("MinMoveTo") EXCEPT !.end = seg.end]>>)
    ELSE IF ProductExceeds(g.area16[1], g.area16[2], 4 * 10 * 10 * g.base * g.base)
    THEN Some(<<[Segment("MinMoveTo") EXCEPT !.end = seg.end]>>)
    ELSE IF (od.side_velocities[1] + od.side_velocities[2] < 2 /\ g.end_dist < 5)
            \/ (g.end_dist < g.start_dist /\ g.start_dist > g.base)
    THEN Some(<<>>)
    ELSE None

\* path.rs MoveRel::end_follow
MoveRelEndFollow(seg, od) == MoveRelDecide(seg, od, MoveRelGeometry(seg, od))

\* path.rs Ram::end_follow
RamEndFollow(seg, t) == IF t - seg.t0 > seg.dur THEN Some(<<>>) ELSE None

\* mutant: every segment counts as transformed
SegFinishedTransformAlways(seg) == TRUE

\* PathSegment::finished_transform of each implementor
SegFinishedTransform(seg) == seg.kind \in ConcreteKinds

\* PathSegment::transform; the concrete segments reach unreachable!()
SegTransform(seg, od) ==
    IF seg.kind \in MinKinds
    THEN [segs |-> MinSegmentTransform(seg, od), panic |-> FALSE]
    ELSE [segs |-> <<>>, panic |-> TRUE]

\* PathSegment::start at time t; MinSegment::start is unreachable!()
SegStart(seg, od, p, t) ==
    CASE seg.kind = "TurnTo" -> [TurnToStart(seg, od, p) EXCEPT !.seg.nstart = @ + 1]
           @@ [panic |-> FALSE]
      [] seg.kind = "MoveRel" ->
           [seg |-> [seg EXCEPT !.nstart = @ + 1], pid |-> p, panic |-> FALSE]
      [] seg.kind = "Ram" ->
           [seg |-> [seg EXCEPT !.t0 = t, !.nstart = @ + 1], pid |-> p, panic |-> FALSE]
      [] OTHER -> [seg |-> seg, pid |-> p, panic |-> TRUE]

\* PathSegment::follow; MinSegment::follow is unreachable!()
SegFollow(seg, od, p) ==
    CASE seg.kind = "TurnTo" -> TurnToFollow(seg, od, p) @@ [panic |-> FALSE]
      [] seg.kind = "MoveRel" -> MoveRelFollow(seg, od, p) @@ [panic |-> FALSE]
      [] seg.kind = "Ram" -> [out |-> <<seg.pow, seg.pow>>, pid |-> p, panic |-> FALSE]
      [] OTHER -> [out |-> <<0, 0>>, pid |-> p, panic |-> TRUE]

\* PathSegment::end_follow at time t; MinSegment::end_follow is unreachable!()
SegEndFollow(seg, od, t) ==
    CASE seg.kind = "TurnTo" -> [res |-> TurnToEndFollow(seg, od), panic |-> FALSE]
      [] seg.kind = "MoveRel" -> [res |-> MoveRelEndFollow(seg, od), panic |-> FALSE]
      [] seg.kind = "Ram" -> [res |-> RamEndFollow(seg, t), panic |-> FALSE]
      [] OTHER -> [res |-> None, panic |-> TRUE]

-----------------------------------------------------------------------------
(* Segments of path/ *)

\* Timer::new at time t
Timer(dur, t) == [start |-> t, duration |-> dur]
\* mutant: a timer that never runs out
TimerNeverDone(timer, t) == FALSE

\* Timer::done
TimerDone(timer, t) == t - timer.start > timer.duration

\* one record shape for the PathSegment implementors of path/:
\*   Nop, SetVel {vel}, PowerMotors {voltages, motors}, TurnTo {target, offset},
\*   RelativeTurnTo {target, offset}, Aux {main, aux}, OdomCond {cond, a, b}
\* main, aux, a and b are None or Some(<<segment, timer>>); cond is the heading
\* from which the closure of an OdomCond holds
QSegment(kind) ==
    [kind |-> kind, id |-> 0, target |-> 0, offset |-> 0, vel |-> <<0, 0>>,
     voltages |-> <<>>, motors |-> <<>>, main |-> None, aux |-> None,
     cond |-> 0, a |-> None, b |-> None]

\* path/odomcond.rs OdomCond::transform: branch a if the condition holds on
\* the odometry, else branch b
OdomCondTransform(seg, od) ==
    IF od.heading >= seg.cond THEN Unwrap(seg.a) ELSE Unwrap(seg.b)

\* path/turnto.rs TurnTo::start_follow
QTurnToStartFollow(seg, od, p) ==
    LET p1 == PidReset(p)
        offset == -od.heading
        target == map_to_closest_global(od.heading, seg.target) + offset
    IN [seg |-> [seg EXCEPT !.offset = offset, !.target = target],
        pid |-> PidSetTarget(p1, target)]

\* path/turnto.rs RelativeTurnTo::start_follow
QRelativeTurnToStartFollow(seg, od, p) ==
    LET p1 == PidReset(p)
    IN [seg |-> [seg EXCEPT !.offset = -od.heading],
        pid |-> PidSetTarget(p1, seg.target)]

\* path/turnto.rs TurnTo::follow and RelativeTurnTo::follow after the PID
\* step: side_vel = angular_vel * 0.14 m in micrometres per second (one
\* degree per second is 2443 of them), scaled into +-2.6 m/s; None when
\* within 5 degrees and the commanded side velocity is under 0.01 m/s
QSideVel(angular_vel) ==
    IF Abs(angular_vel * 2443) > 2600000
    THEN (IF angular_vel < 0 THEN -2600000 ELSE 2600000)
    ELSE angular_vel * 2443

QTurnResult(err, side_vel) ==
    IF Abs(err) < 5 /\ Abs(side_vel) < 10000 THEN None ELSE Some(<<-side_vel, side_vel>>)

\* the angle PID of lib.rs: AnglePid::new(2.0, 0.0, 0.0, 0 degrees)
QTurnFollow(seg, od, p) ==
    [seg |-> seg, pid |-> PidStep(p, od.heading + seg.offset),
     res |-> QTurnResult(od.heading + seg.offset - seg.target,
                         QSideVel(PidOutput(p, od.heading + seg.offset, 2000, 0, 0)))]

\* for (m, v) in motors.zip(voltages) { m.voltage(v) }
RECURSIVE SetVoltages(_, _, _)
SetVoltages(m, ms, vs) ==
    IF ms = <<>> \/ vs = <<>> THEN m
    ELSE SetVoltages([m EXCEPT ![Head(ms)] = Head(vs)], Tail(ms), Tail(vs))

\* for m in motors { m.voltage(0) }
RECURSIVE ZeroVoltages(_, _)
ZeroVoltages(m, ms) ==
    IF ms = <<>> THEN m ELSE ZeroVoltages([m EXCEPT ![Head(ms)] = 0], Tail(ms))

\* what a call on a segment of path/ leaves: the segment, the PID, the motors,
\* the value returned and the segments that wrote the PID (history)
QEffect(seg, p, m, res, writers) ==
    [seg |-> seg, pid |-> p, motors |-> m, res |-> res, writers |-> writers]

QTurnEffect(r, m) == QEffect(r.seg, r.pid, m, r.res, {r.seg.id})
QTurnStarted(r, m) == QEffect(r.seg, r.pid, m, None, {r.seg.id})

RECURSIVE QSegStartFollow(_, _, _, _, _)
\* path/auxiliary.rs Aux::start_follow: both timers are started, then the
\* auxiliary and the main segment (a, b: what their start_follow left)
QAuxStarted(seg, a, b, t) ==
    QEffect([seg EXCEPT !.aux = Some(<<a.seg, [Unwrap(seg.aux)[2] EXCEPT !.start = t]>>),
                        !.main = Some(<<b.seg, [Unwrap(seg.main)[2] EXCEPT !.start = t]>>)],
            b.pid, b.motors, None, a.writers \cup b.writers)

QAuxStartMain(seg, a, od, t) ==
    QAuxStarted(seg, a, QSegStartFollow(Unwrap(seg.main)[1], od, a.pid, a.motors, t), t)

\* PathSegment::start_follow of each implementor at time t
QSegStartFollow(seg, od, p, m, t) ==
    CASE seg.kind = "TurnTo" -> QTurnStarted(QTurnToStartFollow(seg, od, p), m)
      [] seg.kind = "RelativeTurnTo" -> QTurnStarted(QRelativeTurnToStartFollow(seg, od, p), m)
      [] seg.kind = "PowerMotors" ->
           QEffect(seg, p, SetVoltages(m, seg.motors, seg.voltages), None, {})
      [] seg.kind = "Aux" ->
           QAuxStartMain(seg, QSegStartFollow(Unwrap(seg.aux)[1], od, p, m, t), od, t)
      [] OTHER -> QEffect(seg, p, m, None, {})

\* Aux::follow that returns what the auxiliary's follow returned
QAuxFollowedAux(seg, a, b) ==
    QEffect([seg EXCEPT !.aux = Some(<<a.seg, Unwrap(seg.aux)[2]>>),
                        !.main = Some(<<b.seg, Unwrap(seg.main)[2]>>)],
            b.pid, b.motors, a.res, a.writers \cup b.writers)

RECURSIVE QSegFollow(_, _, _, _)
\* path/auxiliary.rs Aux::follow: the auxiliary's result is dropped, the
\* main's is returned
QAuxFollowed(seg, a, b) ==
    QEffect([seg EXCEPT !.aux = Some(<<a.seg, Unwrap(seg.aux)[2]>>),
                        !.main = Some(<<b.seg, Unwrap(seg.main)[2]>>)],
            b.pid, b.motors, b.res, a.writers \cup b.writers)

QAuxFollowMain(seg, a, od) ==
    QAuxFollowed(seg, a, QSegFollow(Unwrap(seg.main)[1], od, a.pid, a.motors))

\* PathSegment::follow of each implementor
QSegFollow(seg, od, p, m) ==
    CASE seg.kind = "Nop" -> QEffect(seg, p, m, Some(<<0, 0>>), {})
      [] seg.kind = "SetVel" -> QEffect(seg, p, m, Some(seg.vel), {})
      [] seg.kind = "PowerMotors" ->
           QEffect(seg, p, SetVoltages(m, seg.motors, seg.voltages), Some(<<0, 0>>), {})
      [] seg.kind \in {"TurnTo", "RelativeTurnTo"} -> QTurnEffect(QTurnFollow(seg, od, p), m)
      [] seg.kind = "Aux" ->
           QAuxFollowMain(seg, QSegFollow(Unwrap(seg.aux)[1], od, p, m), od)

\* PathSegment::end_follow of each implementor: the motors it leaves
RECURSIVE QSegEndFollow(_, _)
QSegEndFollow(seg, m) ==
    CASE seg.kind = "PowerMotors" -> ZeroVoltages(m, seg.motors)
      [] seg.kind = "Aux" ->
           QSegEndFollow(Unwrap(seg.main)[1], QSegEndFollow(Unwrap(seg.aux)[1], m))
      [] OTHER -> m

-----------------------------------------------------------------------------
(* The history kept beside the program state *)

\*   started, ended: ids of the constructor's segments in the order their start
\*                   was called / their run ended
\*   active:         the segments started and not yet ended
\*   calls:          the calls the last follow frame made on segments
\*   tick_ended, tick_started: a segment ended / was started in this tick
\*   built:          the list the path was constructed from
\*   pid_writers:    the segments that wrote the PID since the current segment
\*                   was started
\*   seen:           the states of the path in which the frames of the running
\*                   follow call were entered
\*   looped:         a frame of the running call was entered in a state of the
\*                   path in which an earlier frame of that call was entered
\*   rerouted:       a MoveRel handed back a follow-up in the running call
NoHist ==
    [built |-> <<>>, started |-> <<>>, ended |-> <<>>, active |-> <<>>, calls |-> <<>>,
     tick_ended |-> FALSE, tick_started |-> FALSE, pid_writers |-> {},
     seen |-> {}, looped |-> FALSE, rerouted |-> FALSE]

\* the segments of the calls named op
CallsOf(calls, op) ==
    LET sel == SelectSeq(calls, LAMBDA c : c[1] = op)
    IN [i \in DOMAIN sel |-> sel[i][2]]

\* the ids, of the constructor's segments, among segs
IdsOf(segs) ==
    LET sel == SelectSeq(segs, LAMBDA g : g.id > 0)
    IN [i \in DOMAIN sel |-> sel[i].id]

\* seq without its first element equal to x
RECURSIVE RemoveFirst(_, _)
RemoveFirst(seq, x) ==
    IF seq = <<>> THEN <<>>
    ELSE IF Head(seq) = x THEN Tail(seq)
    ELSE <<Head(seq)>> \o RemoveFirst(Tail(seq), x)

RECURSIVE RemoveAll(_, _)
RemoveAll(seq, xs) ==
    IF xs = <<>> THEN seq ELSE RemoveAll(RemoveFirst(seq, Head(xs)), Tail(xs))

\* the history after a frame that made `calls` and ended the segments `gone`
HistAfter(h, calls, started, gone, writers) ==
    [built |-> h.built,
     seen |-> h.seen, looped |-> h.looped, rerouted |-> h.rerouted,
     pid_writers |-> IF gone # <<>> THEN writers ELSE h.pid_writers \cup writers,
     started |-> h.started \o IdsOf(started),
     ended |-> h.ended \o IdsOf(gone),
     active |-> RemoveAll(h.active \o started, gone),
     calls |-> calls,
     tick_ended |-> h.tick_ended \/ gone # <<>>,
     tick_started |-> h.tick_started \/ started # <<>>]

\* whether the calls of a frame hold an end_follow of a MoveRel that grew the
\* deque from n segments
HandedBack(calls, gone, n, m) ==
    /\ gone # <<>> /\ m > n
    /\ \E i \in DOMAIN calls : calls[i][1] = "end_follow" /\ calls[i][2].kind = "MoveRel"

\* the history h after a frame entered in the state key of the path
FrameNoted(h, key, handed_back) ==
    [h EXCEPT !.seen = @ \cup {key},
              !.looped = @ \/ key \in h.seen,
              !.rerouted = @ \/ handed_back]

Reverse(seq) == [i \in DOMAIN seq |-> seq[Len(seq) + 1 - i]]
SeqsUpTo(S, n) == UNION {[1..k -> S] : k \in 0..n}
WithIds(list) == [i \in DOMAIN list |-> [list[i] EXCEPT !.id = i]]

-----------------------------------------------------------------------------
(* The state every specification starts the path engine in *)

MotorIds == {1, 2}

PathUnused ==
    /\ segments = <<>>
    /\ current_segment = None
    /\ pid = NewPid
    /\ motors = [m \in MotorIds |-> 0]
    /\ odom = ZeroReading
    /\ now = 0
    /\ pc = "idle"
    /\ out = None
    /\ hist = NoHist

-----------------------------------------------------------------------------
(* Path of path.rs: a stack of segments, the back of the deque runs first *)

\* mutant: the list is kept in the order given
PathNewKeepOrder(list) == list

\* path.rs Path::new: segments = reversed_segments.into_iter().rev().collect()
PathNew(list) == Reverse(list)

\* transform_segments, the segment is transformed: it is started and made
\* current (st is what its start left)
TransformStarted(rest, st, calls) ==
    [segments |-> rest, current |-> Some(st.seg), pid |-> st.pid,
     calls |-> Append(calls, <<"start", st.seg>>), panic |-> st.panic]

\* the while loop of Path::transform_segments at time t: pop_back, start the
\* segment if it is transformed, else push its transform to the back
RECURSIVE TransformLoop(_, _, _, _, _)
RECURSIVE TransformPushed(_, _, _, _, _, _)
TransformPushed(rest, tr, od, p, t, calls) ==
    IF tr.panic
    THEN [segments |-> rest, current |-> None, pid |-> p, calls |-> calls, panic |-> TRUE]
    ELSE TransformLoop(rest \o tr.segs, od, p, t, calls)

TransformPopped(new_seg, rest, od, p, t, calls) ==
    IF SegFinishedTransform(new_seg)
    THEN TransformStarted(rest, SegStart(new_seg, od, p, t), calls)
    ELSE TransformPushed(rest, SegTransform(new_seg, od), od, p, t,
                         Append(calls, <<"transform", new_seg>>))

TransformLoop(segs, od, p, t, calls) ==
    IF segs = <<>>
    THEN [segments |-> segs, current |-> None, pid |-> p, calls |-> calls, panic |-> FALSE]
    ELSE TransformPopped(segs[Len(segs)], SubSeq(segs, 1, Len(segs) - 1), od, p, t, calls)

\* mutant: the next segment is fetched although one is current
KeepCurrent(r, cur) == IF IsSome(r.current) THEN r ELSE [r EXCEPT !.current = cur]
transform_segments_always(segs, cur, od, p, t) ==
    KeepCurrent(TransformLoop(segs, od, p, t, <<>>), cur)

\* path.rs Path::transform_segments
transform_segments(segs, cur, od, p, t) ==
    IF IsSome(cur)
    THEN [segments |-> segs, current |-> cur, pid |-> p, calls |-> <<>>, panic |-> FALSE]
    ELSE TransformLoop(segs, od, p, t, <<>>)

\* mutant: the follow-up segments go to the front of the deque, behind the
\* segments already queued
SpliceFront(segs, new_segments) == new_segments \o segs

\* self.segments.extend(new_segments): pushed to the back, so they run next
Splice(segs, new_segments) == segs \o new_segments

\* Path::follow after transform_segments (tr) when there is no current
\* segment to run: [0.0; 2] is returned
FrameBase(tr) ==
    [segments |-> tr.segments, current |-> tr.current, pid |-> tr.pid, motors |-> motors,
     calls |-> tr.calls, gone |-> <<>>, out |-> None, pc |-> "panic",
     start_op |-> "start", writers |-> {}]

\* Path::follow, seg.follow(odom, angle_pid) returned f
FrameFollowed(base, seg, f) ==
    [base EXCEPT !.pid = f.pid,
                 !.calls = Append(base.calls, <<"follow", seg>>),
                 !.out = Some(f.out),
                 !.pc = IF f.panic THEN "panic" ELSE "idle"]

\* Path::follow, seg.end_follow(odom) returned e
FrameEnded(base, seg, e, od) ==
    IF e.panic THEN base
    ELSE IF IsSome(e.res)
    THEN [base EXCEPT !.segments = Splice(base.segments, Unwrap(e.res)),
                      !.current = None, !.gone = <<seg>>, !.pc = "call"]
    ELSE FrameFollowed(base, seg, SegFollow(seg, od, base.pid))

FrameCurrent(base, seg, od, t) ==
    FrameEnded([base EXCEPT !.calls = Append(@, <<"end_follow", seg>>)],
               seg, SegEndFollow(seg, od, t), od)

FrameTransformed(base, panic, od, t) ==
    IF panic THEN base
    ELSE IF ~IsSome(base.current)
    THEN [base EXCEPT !.out = Some(<<0, 0>>), !.pc = "idle"]
    ELSE FrameCurrent(base, Unwrap(base.current), od, t)

FrameOf(tr, od, t) == FrameTransformed(FrameBase(tr), tr.panic, od, t)

\* one frame of path.rs Path::follow at time t: what it leaves in the path and
\* the PID, the command it returns (None while the recursive call is pending)
StackFrame(segs, cur, od, p, t) == FrameOf(transform_segments(segs, cur, od, p, t), od, t)

MaxSegs == 2
MaxTime == 3

\* the segments a path.rs path is built from
StackTemplates ==
    { [Segment("MinTurnTo") EXCEPT !.target_heading = 90],
      [Segment("MinTurnRel") EXCEPT !.target_heading = 270],
      [Segment("MinMoveTo") EXCEPT !.end = <<0, 50>>],
      [Segment("MinMoveRel") EXCEPT !.dist = 50],
      [Segment("TurnTo") EXCEPT !.target_heading = 450],
      [Segment("MoveRel") EXCEPT !.end = <<50, 0>>, !.dist = 50],
      [Segment("Ram") EXCEPT !.pow = 300, !.dur = 1] }

\* the odometry readings a tick can see
StackReadings ==
    { Reading(0, 0, <<0, 0>>, <<0, 0>>),
      Reading(90, 0, <<0, 0>>, <<0, 0>>),
      Reading(90, 30, <<0, 25>>, <<40, 40>>),
      Reading(90, 0, <<0, -50>>, <<0, 0>>),
      Reading(100, 0, <<30, 25>>, <<0, 0>>),
      Reading(0, 0, <<-50, 0>>, <<0, 0>>),
      Reading(-27, 0, <<0, 25>>, <<0, 0>>) }

InitStack ==
    /\ impl = "stack"
    /\ \E list \in SeqsUpTo(StackTemplates, MaxSegs) :
          /\ segments = PathNew(WithIds(list))
          /\ hist = [NoHist EXCEPT !.built = WithIds(list)]
    /\ current_segment = None
    /\ pid = NewPid
    /\ motors = [m \in MotorIds |-> 0]
    /\ odom = ZeroReading
    /\ now = 0
    /\ pc = "idle"
    /\ out = None
    /\ args = None /\ result = None

\* robota.rs auton: one control-loop tick calls route.follow on the
\* odometry of the tick
StackTick ==
    /\ impl = "stack" /\ pc = "idle" /\ now < MaxTime
    /\ \E r \in StackReadings : odom' = r
    /\ now' = now + 1
    /\ pc' = "call"
    /\ hist' = [hist EXCEPT !.calls = <<>>, !.tick_ended = FALSE, !.tick_started = FALSE,
                             !.seen = {}, !.looped = FALSE, !.rerouted = FALSE]
    /\ UNCHANGED <<impl, segments, current_segment, pid, motors, out, fnVars>>

\* the path after a frame f of follow
FrameApplied(f) ==
    /\ segments' = f.segments
    /\ current_segment' = f.current
    /\ pid' = f.pid
    /\ pc' = f.pc
    /\ out' = IF IsSome(f.out) THEN f.out ELSE out
    /\ motors' = f.motors
    /\ hist' = FrameNoted(
                   HistAfter(hist, f.calls, CallsOf(f.calls, f.start_op), f.gone, f.writers),
                   <<segments, current_segment, pid, motors>>,
                   impl = "stack" /\ HandedBack(f.calls, f.gone, Len(segments), Len(f.segments)))

\* path.rs Path::follow, one frame; `return self.follow(odom, angle_pid)`
\* leaves the next frame pending
StackFollow ==
    /\ impl = "stack" /\ pc = "call"
    /\ FrameApplied(StackFrame(segments, current_segment, odom, pid, now))
    /\ UNCHANGED <<impl, odom, now, fnVars>>

-----------------------------------------------------------------------------
(* Path of path/mod.rs: a queue of (segment, timer), the front runs first *)

QWithIds(list) == [i \in DOMAIN list |-> <<[list[i][1] EXCEPT !.id = i], list[i][2]>>]

\* path/mod.rs Path::new: segments.into()
QPathNew(list) == list

QFrameRecord(segs, cur, p, m, o, c, calls, gone, writers) ==
    [segments |-> segs, current |-> cur, pid |-> p, motors |-> m, out |-> o, pc |-> c,
     calls |-> calls, gone |-> gone, start_op |-> "start_follow", writers |-> writers]

\* Path::follow: the popped segment entry was started (st), its timer
\* restarted, and the recursive call is pending
QFrameStarted(rest, entry, st, t, calls, gone) ==
    QFrameRecord(rest, Some(<<st.seg, [entry[2] EXCEPT !.start = t]>>), st.pid, st.motors,
                 None, "call", Append(calls, <<"start_follow", st.seg>>), gone, st.writers)

\* Path::follow that answers a drive command, not None, when the queue is empty
QFrameNextRepeat(segs, od, p, m, t, calls, gone) ==
    IF segs = <<>>
    THEN QFrameRecord(segs, None, p, m, Some(Some(<<100, 100>>)), "idle", calls, gone, {})
    ELSE QFrameStarted(Tail(segs), Head(segs),
                       QSegStartFollow(Head(segs)[1], od, p, m, t), t, calls, gone)

\* Path::follow: start_follow of the popped entry is unreachable!()
QFramePanicked(rest, entry, p, m, calls, gone) ==
    QFrameRecord(rest, Some(entry), p, m, None, "panic",
                 Append(calls, <<"start_follow", entry[1]>>), gone, {})

\* Path::follow from `self.current_segment = self.segments.pop_front()` on
QFrameNext(segs, od, p, m, t, calls, gone) ==
    IF segs = <<>>
    THEN QFrameRecord(segs, None, p, m, Some(None), "idle", calls, gone, {})
    ELSE IF Head(segs)[1].kind = "OdomCond"
    THEN QFramePanicked(Tail(segs), Head(segs), p, m, calls, gone)
    ELSE QFrameStarted(Tail(segs), Head(segs),
                       QSegStartFollow(Head(segs)[1], od, p, m, t), t, calls, gone)

\* Path::follow, the current segment's follow returned f: Some(vels) is
\* returned, on None the next segment is fetched
QFrameFollowed(segs, seg, timer, f, od, t) ==
    IF IsSome(f.res)
    THEN QFrameRecord(segs, Some(<<f.seg, timer>>), f.pid, f.motors, Some(f.res), "idle",
                      <<<<"follow", seg>>>>, <<>>, f.writers)
    ELSE QFrameNext(segs, od, f.pid, f.motors, t, <<<<"follow", seg>>>>, <<seg>>)

\* mutant: a segment whose timer is done is followed like any other
QFrameCurrentNoTimer(segs, seg, timer, od, p, m, t) ==
    QFrameFollowed(segs, seg, timer, QSegFollow(seg, od, p, m), od, t)

\* Path::follow with a current segment: end_follow if its timer is done, else
\* its follow
QFrameCurrent(segs, seg, timer, od, p, m, t) ==
    IF TimerDone(timer, t)
    THEN QFrameNext(segs, od, p, QSegEndFollow(seg, m), t, <<<<"end_follow", seg>>>>, <<seg>>)
    ELSE QFrameFollowed(segs, seg, timer, QSegFollow(seg, od, p, m), od, t)

\* one frame of path/mod.rs Path::follow at time t
QFrame(segs, cur, od, p, m, t) ==
    IF IsSome(cur)
    THEN QFrameCurrent(segs, Unwrap(cur)[1], Unwrap(cur)[2], od, p, m, t)
    ELSE QFrameNext(segs, od, p, m, t, <<>>, <<>>)

DefaultDuration == 100

\* the (segment, timer) entries a path/ path is built from; the timers are
\* made at time 0
QueueTemplates ==
    { <<QSegment("Nop"), Timer(1, 0)>>,
      <<[QSegment("SetVel") EXCEPT !.vel = <<100, 100>>], Timer(1, 0)>>,
      <<[QSegment("PowerMotors") EXCEPT !.voltages = <<6000>>, !.motors = <<1>>], Timer(1, 0)>>,
      <<[QSegment("TurnTo") EXCEPT !.target = 90], Timer(DefaultDuration, 0)>>,
      <<[QSegment("RelativeTurnTo") EXCEPT !.target = 90], Timer(1, 0)>>,
      <<[QSegment("Aux") EXCEPT
            !.main = Some(<<[QSegment("TurnTo") EXCEPT !.target = 90, !.id = -2],
                            Timer(DefaultDuration, 0)>>),
            !.aux = Some(<<[QSegment("PowerMotors") EXCEPT !.voltages = <<-6000>>,
                                 !.motors = <<2>>, !.id = -1], Timer(DefaultDuration, 0)>>)],
        Timer(DefaultDuration, 0)>>,
      <<[QSegment("Aux") EXCEPT
            !.main = Some(<<[QSegment("TurnTo") EXCEPT !.target = 90, !.id = -2],
                            Timer(DefaultDuration, 0)>>),
            !.aux = Some(<<[QSegment("TurnTo") EXCEPT !.target = 180, !.id = -1],
                           Timer(DefaultDuration, 0)>>)],
        Timer(DefaultDuration, 0)>> }

QueueReadings ==
    { Reading(0, 0, <<0, 0>>, <<0, 0>>),
      Reading(90, 0, <<0, 0>>, <<0, 0>>),
      Reading(87, 30, <<0, 0>>, <<0, 0>>),
      Reading(450, 0, <<0, 0>>, <<0, 0>>) }

InitQueue ==
    /\ impl = "queue"
    /\ \E list \in SeqsUpTo(QueueTemplates, MaxSegs) :
          /\ segments = QPathNew(QWithIds(list))
          /\ hist = [NoHist EXCEPT !.built = QWithIds(list)]
    /\ current_segment = None
    /\ pid = NewPid
    /\ motors = [m \in MotorIds |-> 0]
    /\ odom = ZeroReading
    /\ now = 0
    /\ pc = "idle"
    /\ out = None
    /\ args = None /\ result = None

\* lib.rs Robot::run: one control-loop tick, the autonomous routine calls
\* follow on the odometry of the tick
QueueTickOn(readings, limit) ==
    /\ impl = "queue" /\ pc = "idle" /\ now < limit
    /\ \E r \in readings : odom' = r
    /\ now' = now + 1
    /\ pc' = "call"
    /\ hist' = [hist EXCEPT !.calls = <<>>, !.tick_ended = FALSE, !.tick_started = FALSE,
                             !.seen = {}, !.looped = FALSE, !.rerouted = FALSE]
    /\ UNCHANGED <<impl, segments, current_segment, pid, motors, out, fnVars>>

QueueTick == QueueTickOn(QueueReadings, MaxTime)

\* path/mod.rs Path::follow, one frame; `return self.follow(odom, turn_pid)`
\* leaves the next frame pending
QueueFollow ==
    /\ impl = "queue" /\ pc = "call"
    /\ FrameApplied(QFrame(segments, current_segment, odom, pid, motors, now))
    /\ UNCHANGED <<impl, odom, now, fnVars>>

-----------------------------------------------------------------------------
(* SpecAngle: the start of a turn segment on every heading and target *)

MaxRev == 2
AngleStep == 45

\* headings and targets: every multiple of AngleStep within MaxRev
\* revolutions either way, and the degree before and after each
AngleSamples ==
    {k * AngleStep + e : k \in -(MaxRev * (TAU \div AngleStep))..(MaxRev * (TAU \div AngleStep)),
                         e \in {-1, 0, 1}}

InitAngle ==
    /\ impl = "fn"
    /\ args \in [fn : {"start_turn"}, heading : AngleSamples, target : AngleSamples]
    /\ result = None
    /\ PathUnused

\* a TurnTo of path.rs and a TurnTo of path/turnto.rs, both with the target
\* args.target, are started on the heading args.heading
StartTurn ==
    /\ impl = "fn" /\ args.fn = "start_turn" /\ result = None
    /\ LET od == Reading(args.heading, 0, <<0, 0>>, <<0, 0>>)
           s == TurnToStart([Segment("TurnTo") EXCEPT !.target_heading = args.target],
                            od, NewPid)
           q == QTurnToStartFollow([QSegment("TurnTo") EXCEPT !.target = args.target],
                                   od, NewPid)
       IN result' = Some([stack_target |-> s.pid.target,
                          stack_seg |-> s.seg.target_heading,
                          \* the PID of path/ works relative to offset
                          queue_target |-> q.pid.target - q.seg.offset])
    /\ UNCHANGED <<impl, args, pathVars>>

NextAngle == StartTurn

SpecAngle == InitAngle /\ [][NextAngle]_vars

\* C8: the target a turn segment resolves at its start is within PI of the
\* current heading and congruent to the requested bearing modulo TAU, in
\* path.rs (optimise_target_heading) and in path/turnto.rs
\* (map_to_closest_global), for headings of any number of revolutions.
C8_ResolvedTargetNearest ==
    (args.fn = "start_turn" /\ IsSome(result)) =>
        LET r == Unwrap(result)
        IN /\ Abs(r.stack_target - args.heading) <= PI
           /\ (r.stack_target - args.target) % TAU = 0
           /\ r.stack_seg = r.stack_target
           /\ Abs(r.queue_target - args.heading) <= PI
           /\ (r.queue_target - args.target) % TAU = 0

\* a turn was started more than a revolution away from zero and the target
\* had to be moved by whole revolutions to come near the heading
C8_Witness ==
    /\ args.fn = "start_turn" /\ IsSome(result)
    /\ args.heading < -TAU /\ args.target > PI
    /\ Unwrap(result).stack_target # args.target
    /\ Unwrap(result).queue_target # args.target

-----------------------------------------------------------------------------
(* SpecTurn: the completion check of the turn segments *)

MaxTurnErr == 7

TurnTargets == {90, -90, 450}
TurnRates == {-30, -1, 0, 1, 30}
\* the angular velocity the PID step commands, in degrees per second
TurnCommands == {-30, 0, 4, 6}

\* a turn to args.target is started on the heading 0 with the robot at rest;
\* the check then sees the heading err degrees off the target, the measured
\* angular velocity args.ang and, in path/turnto.rs, the angular velocity
\* args.cmd returned by the PID step
InitTurn ==
    /\ impl = "fn"
    /\ args \in [fn : {"turn_done"}, target : TurnTargets,
                 err : -MaxTurnErr..MaxTurnErr, ang : TurnRates, cmd : TurnCommands]
    /\ result = None
    /\ PathUnused

\* path.rs Route::follow, the guard of the ProcessedSegment::TurnTo arm
RouteTurnFinished(target_heading, od) ==
    Abs(od.heading - target_heading) < 2 /\ Abs(od.angular_velocity) < 1

\* a started turn of path.rs with the error its end_follow compares
StackTurnCheck(st, od) ==
    [done |-> IsSome(TurnToEndFollow(st.seg, od)),
     err |-> od.heading - st.seg.target_heading]

RouteTurnCheck(target_heading, od) ==
    [done |-> RouteTurnFinished(target_heading, od), err |-> od.heading - target_heading]

\* a started turn of path/turnto.rs with the error its follow compares, on
\* the angular velocity cmd returned by turn_pid.step
QueueTurnCheck(st, od, cmd) ==
    [done |-> ~IsSome(QTurnResult(od.heading + st.seg.offset - st.seg.target, QSideVel(cmd))),
     err |-> od.heading + st.seg.offset - st.seg.target]

TurnChecks(target, od0, od, cmd) ==
    [stack |-> StackTurnCheck(
                   TurnToStart([Segment("TurnTo") EXCEPT !.target_heading = target],
                               od0, NewPid), od),
     route |-> RouteTurnCheck(optimise_target_heading(od0.heading, target), od),
     queue |-> QueueTurnCheck(
                   QTurnToStartFollow([QSegment("TurnTo") EXCEPT !.target = target],
                                      od0, NewPid), od, cmd),
     rel |-> QueueTurnCheck(
                 QRelativeTurnToStartFollow(
                     [QSegment("RelativeTurnTo") EXCEPT !.target = target], od0, NewPid),
                 od, cmd)]

\* the heading the robot has when it is err degrees off the bearing target
\* reached from heading 0
TurnHeading(target, err) == optimise_target_heading(0, target) + err

\* every turn segment is asked in one tick whether it is complete
TurnDone ==
    /\ impl = "fn" /\ args.fn = "turn_done" /\ result = None
    /\ result' = Some(TurnChecks(args.target, ZeroReading,
                      Reading(TurnHeading(args.target, args.err), args.ang,
                              <<0, 0>>, <<0, 0>>),
                      args.cmd))
    /\ UNCHANGED <<impl, args, pathVars>>

NextTurn == TurnDone

SpecTurn == InitTurn /\ [][NextTurn]_vars

\* C9: a turn segment reports completion in a tick if and only if
\* |heading - target| < 2 degrees and the measured |angular velocity| <
\* 1 degree/s, in TurnTo::end_follow and Route::follow of path.rs and in
\* TurnTo::follow and RelativeTurnTo::follow of path/turnto.rs.
C9_TurnCompletion ==
    (args.fn = "turn_done" /\ IsSome(result)) =>
        \A k \in {"stack", "route", "queue", "rel"} :
            Unwrap(result)[k].done <=>
                (Abs(Unwrap(result)[k].err) < 2 /\ Abs(args.ang) < 1)

-----------------------------------------------------------------------------
(* SpecMoveRel: MoveRel::end_follow on a grid of positions *)

MaxCoord == 2
CoordStep == 50

MoveRelStarts == {<<0, 0>>, <<CoordStep, 0>>}
MoveRelPositions ==
    {<<x * CoordStep + dx, y>> : x \in -MaxCoord..MaxCoord + 1, dx \in {-3, 0}, y \in {0, 3}}

\* a MoveRel of 1 m along x from args.start is asked by end_follow whether it
\* is complete with the robot at args.pos
InitMoveRel ==
    /\ impl = "fn"
    /\ args \in [fn : {"moverel_end"}, start : MoveRelStarts, pos : MoveRelPositions,
                 heading : {0, 5, 90}, vel : {<<0, 0>>, <<40, 40>>}]
    /\ result = None
    /\ PathUnused

MoveRelOf(start) ==
    [Segment("MoveRel") EXCEPT !.start = start, !.end = <<start[1] + 100, start[2]>>,
                               !.dist = 100]

MoveRelEnd ==
    /\ impl = "fn" /\ args.fn = "moverel_end" /\ result = None
    /\ result' = Some(MoveRelEndFollow(MoveRelOf(args.start),
                          Reading(args.heading, 0, args.pos, args.vel)))
    /\ UNCHANGED <<impl, args, pathVars>>

NextMoveRel == MoveRelEnd

SpecMoveRel == InitMoveRel /\ [][NextMoveRel]_vars

\* the squared Euclidean distance between two points
DistSq(a, b) == VecMagSq(VecSubTrue(a, b))

\* the completion rule on the true distances from pos to end and start:
\* stopped within 0.05 m of the end, or past the end
MoveRelCompleteOnTrueDistances(seg, pos, vel) ==
    \/ vel[1] + vel[2] < 2 /\ DistSq(seg.end, pos) < 5 * 5
    \/ /\ DistSq(seg.end, pos) < DistSq(seg.start, pos)
       /\ DistSq(seg.start, pos) > DistSq(seg.end, seg.start)

IsReroute(r) == IsSome(r) /\ Unwrap(r) # <<>>

\* C10: when no drift re-route triggers, MoveRel::end_follow returns
\* Some(empty) exactly when the robot is stopped within 0.05 m of the end or
\* has passed the target, on the true Euclidean distances from the robot to
\* the segment's end and start, for every start point; a stopped robot
\* standing on the end point completes the segment.
C10_CompletesOnTrueDistances ==
    (args.fn = "moverel_end" /\ IsSome(result) /\ ~IsReroute(Unwrap(result))) =>
        (Unwrap(result) = Some(<<>>)
            <=> MoveRelCompleteOnTrueDistances(MoveRelOf(args.start), args.pos, args.vel))

-----------------------------------------------------------------------------
(* Spec: the two path engines *)

Init == InitStack \/ InitQueue

Next == StackTick \/ StackFollow \/ QueueTick \/ QueueFollow

Spec == Init /\ [][Next]_vars

-----------------------------------------------------------------------------
(* Properties of Path of path.rs *)

CurrentList == IF IsSome(current_segment) THEN <<Unwrap(current_segment)>> ELSE <<>>

\* C1: in Path::follow of path.rs at most one segment is active at any time:
\* the segments started and not yet ended by an end_follow returning Some are
\* never more than one, and current_segment holds exactly that segment.
C1_AtMostOneActive ==
    impl = "stack" => /\ Len(hist.active) <= 1
                      /\ hist.active = CurrentList

\* a second segment is current after the first one ended
C1_Witness ==
    /\ impl = "stack"
    /\ IsSome(current_segment)
    /\ hist.ended # <<>>
    /\ Len(hist.active) = 1

BuiltConcrete ==
    \A i \in DOMAIN hist.built :
        IF impl = "stack" THEN hist.built[i].kind \in ConcreteKinds ELSE TRUE

IsPrefix(a, b) == Len(a) <= Len(b) /\ a = SubSeq(b, 1, Len(a))

\* C2: a path built from a list of concrete segments s1..sn starts them in the
\* order s1, s2, ..., sn, and s(i+1) is started only after s(i) has ended, in
\* the stack of path.rs and in the queue of path/mod.rs.
C2_ConstructorOrder ==
    (impl \in {"stack", "queue"} /\ BuiltConcrete) =>
        /\ hist.started = [i \in 1..Len(hist.started) |-> i]
        /\ Len(hist.started) <= Len(hist.built)
        /\ IsPrefix(hist.ended, hist.started)
        /\ Len(hist.ended) >= Len(hist.started) - 1

\* both segments of a two-segment path were started, the first has ended
C2_Witness ==
    /\ impl = "stack" /\ BuiltConcrete
    /\ hist.started = <<1, 2>>
    /\ hist.ended = <<1>>

HasCall(calls, op, seg) == \E i \in DOMAIN calls : calls[i] = <<op, seg>>
CountCalls(calls, op, seg) == Cardinality({i \in DOMAIN calls : calls[i] = <<op, seg>>})

\* one frame of path.rs Path::follow with a current segment whose end_follow
\* returns e
C3_FrameWithCurrent(seg, e) ==
    IF ~IsSome(e)
    THEN /\ current_segment' = current_segment
         /\ segments' = segments
         /\ pc' = "idle"
         /\ out' = Some(SegFollow(seg, odom, pid).out)
    ELSE /\ current_segment' = None
         /\ Len(segments') = Len(segments) + Len(Unwrap(e))
         /\ SubSeq(segments', 1, Len(segments)) = segments
         /\ SubSeq(segments', Len(segments) + 1, Len(segments')) = Unwrap(e)
         /\ pc' = "call"

\* the frame that follows in the same call: the segment at the back is the
\* one fetched, and the command is that segment's (or [0, 0] on an empty path)
C3_FrameFetching ==
    IF segments = <<>>
    THEN out' = Some(<<0, 0>>) /\ pc' = "idle" /\ current_segment' = None
    ELSE /\ hist'.calls # <<>>
         /\ hist'.calls[1][2].id = segments[Len(segments)].id
         /\ hist'.calls[1][2].kind = segments[Len(segments)].kind
         /\ (pc' = "idle" /\ IsSome(current_segment')) =>
               /\ hist'.calls[Len(hist'.calls)] = <<"follow", Unwrap(current_segment')>>
               /\ HasCall(hist'.calls, "start", Unwrap(current_segment'))

C3_Step ==
    (impl = "stack" /\ pc = "call") =>
        IF IsSome(current_segment)
        THEN C3_FrameWithCurrent(Unwrap(current_segment),
                                 SegEndFollow(Unwrap(current_segment), odom, now).res)
        ELSE C3_FrameFetching

\* C3: in Path::follow of path.rs, an end_follow returning None keeps the
\* segment current and the call returns its follow output; Some(v) drops the
\* segment, puts the segments of v where they run before every queued segment,
\* and the command of that call comes from the newly started segment, or is
\* [0, 0] when nothing is left.
C3_EndFollowSplices == [][C3_Step]_vars

\* a segment ended handing back a follow-up while another segment was queued,
\* and the follow-up's segment is the current one
C3_Witness ==
    /\ impl = "stack" /\ pc = "idle"
    /\ hist.ended = <<1>> /\ Len(hist.built) = 2
    /\ IsSome(current_segment) /\ Unwrap(current_segment).id = 0
    /\ \E i \in DOMAIN segments : segments[i].id = 2

C4_CallRespectsLifecycle(c) ==
    CASE c[1] = "transform" -> ~(c[2].kind \in ConcreteKinds) /\ c[2].nstart = 0
      [] c[1] = "start" -> c[2].kind \in ConcreteKinds /\ c[2].nstart = 1
      [] c[1] \in {"follow", "end_follow"} -> c[2].kind \in ConcreteKinds /\ c[2].nstart = 1
      [] OTHER -> FALSE

\* C4: Path::follow of path.rs respects the segment lifecycle on every path of
\* MinSegment, TurnTo, MoveRel and Ram segments: transform is called only on
\* untransformed segments, start exactly once on each concrete segment and
\* before its follow or end_follow, follow and end_follow never on an
\* untransformed segment, and no unreachable!() is reached.
C4_Lifecycle ==
    impl = "stack" =>
        /\ pc # "panic"
        /\ \A i \in DOMAIN hist.calls : C4_CallRespectsLifecycle(hist.calls[i])
        /\ \A i \in DOMAIN segments : segments[i].nstart = 0
        /\ IsSome(current_segment) =>
              /\ Unwrap(current_segment).kind \in ConcreteKinds
              /\ Unwrap(current_segment).nstart = 1

\* one frame transformed a minimal segment, started its first segment and
\* followed it
C4_Witness ==
    /\ impl = "stack"
    /\ \E i \in DOMAIN hist.calls : hist.calls[i][1] = "transform"
    /\ \E i \in DOMAIN hist.calls : hist.calls[i][1] = "follow"

-----------------------------------------------------------------------------
(* Properties of Path of path/mod.rs *)

\* C5: the shared angle PID is mutated by at most one started-and-unfinished
\* segment at a time: while a segment is active no other segment resets,
\* retargets or steps the PID, on every path of path/mod.rs, also with an Aux
\* whose main and aux are both turn segments.
C5_SinglePidWriter ==
    impl = "queue" => Cardinality(hist.pid_writers) <= 1

\* the motors a segment of path/ sets a voltage on
RECURSIVE QDrivenMotors(_)
QDrivenMotors(seg) ==
    CASE seg.kind = "PowerMotors" -> {seg.motors[i] : i \in DOMAIN seg.motors}
      [] seg.kind = "Aux" ->
           QDrivenMotors(Unwrap(seg.main)[1]) \cup QDrivenMotors(Unwrap(seg.aux)[1])
      [] OTHER -> {}

CurrentDriven ==
    IF IsSome(current_segment) THEN QDrivenMotors(Unwrap(current_segment)[1]) ELSE {}

\* C6: in path/mod.rs a segment that stops being current, by its timer or by
\* its own follow returning None, has had end_follow called: every motor a
\* PowerMotors segment drove (also as the aux or main of an Aux) is at
\* voltage 0 once that segment is no longer the current one.
C6_MotorsZeroedAfterSegment ==
    impl = "queue" => \A m \in MotorIds : motors[m] # 0 => m \in CurrentDriven

C7_Next(entry) ==
    /\ IsSome(current_segment')
    /\ Unwrap(current_segment')[1].id = entry[1].id
    /\ Unwrap(current_segment')[1].kind = entry[1].kind
    /\ Unwrap(current_segment')[2] = [start |-> now, duration |-> entry[2].duration]
    /\ segments' = Tail(segments)
    /\ HasCall(hist'.calls, "start_follow", Unwrap(current_segment')[1])

C7_TimedOut(seg) ==
    /\ ~HasCall(hist'.calls, "follow", seg)
    /\ CountCalls(hist'.calls, "end_follow", seg) = 1
    /\ IF segments = <<>>
       THEN current_segment' = None /\ segments' = <<>>
       ELSE C7_Next(Head(segments))

C7_Step ==
    (/\ impl = "queue" /\ pc = "call" /\ IsSome(current_segment)
     /\ now - Unwrap(current_segment)[2].start > Unwrap(current_segment)[2].duration)
        => C7_TimedOut(Unwrap(current_segment)[1])

\* C7: in path/mod.rs, once the time since the current segment's start_follow
\* exceeds its timer's duration, the next Path::follow call does not call its
\* follow, calls its end_follow exactly once, and starts the next queued
\* segment, restarting that segment's timer, in the same call.
C7_TimeoutEndsSegment == [][C7_Step]_vars

\* a timed-out PowerMotors segment was ended and the next segment started in
\* the same call
C7_Witness ==
    /\ impl = "queue"
    /\ \E i \in DOMAIN hist.calls :
          hist.calls[i][1] = "end_follow" /\ hist.calls[i][2].kind = "PowerMotors"
    /\ \E i \in DOMAIN hist.calls : hist.calls[i][1] = "start_follow"
    /\ IsSome(current_segment) /\ Unwrap(current_segment)[2].start = now

-----------------------------------------------------------------------------
(* Drift recovery and the recursion of Path::follow of path.rs *)

\* C11: drift during a move segment is recovered: MoveRel::end_follow hands
\* back one MoveTo to the same end point, the path runs a TurnTo towards the
\* end point and then a MoveRel from the current position, before the queued
\* segments, and the path neither panics nor ends because of the drift: the
\* follow call in which a follow-up was handed back does not come back to a
\* state of the path it was in before.
C11_DriftRecovered ==
    (impl = "stack" /\ hist.rerouted) => (pc # "panic" /\ ~hist.looped)

-----------------------------------------------------------------------------
(* SpecNearDist: the distance from the line computed by MoveRel::end_follow *)

\* sixteen times the squared area that Heron's formula gives for sides whose
\* squares are a2, b2, c2: with s = (a + b + c) / 2,
\* 16 s (s - a) (s - b) (s - c) = 2 (a2 b2 + b2 c2 + c2 a2) - (a2^2 + b2^2 + c2^2)
HeronSq16(a2, b2, c2) ==
    2 * (a2 * b2 + b2 * c2 + c2 * a2) - (a2 * a2 + b2 * b2 + c2 * c2)

\* the square of near_dist = 2.0 * area / base as the fraction num / den; the
\* square root of a negative num is a NaN, and so is a division by den = 0
NearDistSqOf(end_dist2, start_dist2, base2) ==
    [num |-> HeronSq16(end_dist2, start_dist2, base2), den |-> 4 * base2]

\* path.rs MoveRel::end_follow: base, end_dist, start_dist, area and near_dist
\* for a segment from start to end with the robot at pos
MoveRelNearDistSq(start, end, pos) ==
    NearDistSqOf(VecMagSq(VecSub(end, pos)), VecMagSq(VecSub(start, pos)),
                 VecMagSq(VecSub(end, start)))

MaxOffset == 6

NearDistStarts == {<<0, 0>>, <<4, 0>>, <<1, 2>>}
NearDistPaths == {<<10, 0>>, <<3, 4>>, <<0, 5>>}
NearDistOffsets == {<<x, y>> : x \in {0, 5, 10, 3}, y \in -MaxOffset..MaxOffset}

\* a segment from args.start along args.path, the robot at args.start + args.off
InitNearDist ==
    /\ impl = "fn"
    /\ args \in [fn : {"near_dist"}, start : NearDistStarts, path : NearDistPaths,
                 off : NearDistOffsets]
    /\ result = None
    /\ PathUnused

NearDist ==
    /\ impl = "fn" /\ args.fn = "near_dist" /\ result = None
    /\ result' = Some(MoveRelNearDistSq(args.start, VecAdd(args.start, args.path),
                                        VecAdd(args.start, args.off)))
    /\ UNCHANGED <<impl, args, pathVars>>

NextNearDist == NearDist

SpecNearDist == InitNearDist /\ [][NextNearDist]_vars

\* the z component of the cross product of two vectors
CrossZ(a, b) == a[1] * b[2] - a[2] * b[1]

\* C12: for start # end and every position pos, near_dist of
\* MoveRel::end_follow equals the perpendicular distance from pos to the line
\* through start and end: |path x off| / |path|, with path = end - start and
\* off = pos - start; also when start is not the origin.
C12_NearDistIsPerpendicular ==
    (args.fn = "near_dist" /\ IsSome(result)) =>
        /\ Unwrap(result).den # 0
        /\ Unwrap(result).num * VecMagSq(args.path)
              = Unwrap(result).den * CrossZ(args.path, args.off) * CrossZ(args.path, args.off)


-----------------------------------------------------------------------------
(* odom.rs: DriveImuOdom and DriveOdom.  Lengths in mm, angles in degrees,
   instants and durations in units of 0.1 ms, velocities in mm/s.  A call of
   update takes the time since the previous call, the value of
   drive.get_encoders() and (DriveImuOdom) the value of imu.euler_angles() *)

\* ConstGenericRingBuffer<T, N>: push drops the oldest entry of a full buffer
RingPush(rb, x, n) == IF Len(rb) >= n THEN Append(Tail(rb), x) ELSE Append(rb, x)
Back(rb) == rb[Len(rb)]

RECURSIVE SeqSum(_)
SeqSum(rb) == IF rb = <<>> THEN 0 ELSE Head(rb) + SeqSum(Tail(rb))

\* util::get_vel and util::get_angle: the mean of the buffer, zero when empty
get_vel(rb) == IF Len(rb) = 0 THEN 0 ELSE DivRound(SeqSum(rb), Len(rb))
get_angle(rb) == IF Len(rb) = 0 THEN 0 ELSE DivRound(SeqSum(rb), Len(rb))

\* Duration::from_micros(15_000) and Duration::from_micros(5200)
ImuOdomInterval == 150
DriveOdomInterval == 52

\* odom::DriveOdom::new(meter!(0.1285)), in units of 0.1 mm
dw == 1285

\* DriveImuOdom::new at instant t
DriveImuOdomNew(t) ==
    [pos |-> <<0, 0>>, angles |-> <<0>>, vel |-> <<0, 0>>,
     side_vel |-> <<<<>>, <<>>>>, headings |-> <<0>>, last_difference |-> 0,
     dist |-> <<0, 0>>, update |-> t]

\* DriveOdom::new at instant t
DriveOdomNew(t) ==
    [dist |-> <<0, 0>>, angle |-> 0, pos |-> <<0, 0>>, update |-> t,
     vel |-> <<0, 0>>, side_vels |-> <<<<>>, <<>>>>]

\* the difference get_angle_difference takes between two raw headings: treated
\* as a wrap when they are more than 160 degrees apart
HeadingDiff(raw_heading, last_heading) ==
    IF Abs(raw_heading - last_heading) > 160
    THEN IF raw_heading < last_heading
         THEN (raw_heading + 360) - last_heading
         ELSE (raw_heading - 360) - last_heading
    ELSE raw_heading - last_heading

\* whether get_angle_difference returns Some for the value of
\* imu.euler_angles(): None is Err, Some(raw) is Ok with yaw raw
ImuReadOk(imu) == IsSome(imu) /\ ~(Unwrap(imu) < 0 \/ Unwrap(imu) > 368)

\* DriveImuOdom::get_angle_difference: the object afterwards and the value
\* returned
get_angle_difference(o, imu) ==
    IF ~ImuReadOk(imu)
    THEN [o |-> o, diff |-> None]
    ELSE [o |-> [o EXCEPT !.headings = RingPush(@, Unwrap(imu), 4),
                          !.last_difference =
                              HeadingDiff(Unwrap(imu), Back(o.headings))],
          diff |-> Some(HeadingDiff(Unwrap(imu), Back(o.headings)))]

\* diff / time in mm/s, time in units of 0.1 ms
PerTime(diff, time) == DivRound(diff * 10000, time)

\* the displacement (dx, dy) of the centre: diff_dist * tmp.sin_cos(), with
\* diff_dist = 0.5 * (diff_l + diff_r)
Displacement(diff_l, diff_r, tmp) ==
    <<DivRound((diff_l + diff_r) * Sin(tmp), 2000),
      DivRound((diff_l + diff_r) * Cos(tmp), 2000)>>

\* DriveImuOdom::update from "apply global displacement and rotation" on
ImuOdomApplied(o, t, d, time, diff_l, diff_r, diff_angle, dxy) ==
    [o EXCEPT !.side_vel = <<RingPush(o.side_vel[1], PerTime(diff_l, time), 5),
                             RingPush(o.side_vel[2], PerTime(diff_r, time), 5)>>,
              !.pos = <<o.pos[1] - dxy[1], o.pos[2] + dxy[2]>>,
              !.angles = RingPush(@, Back(o.angles) + diff_angle, 4),
              !.dist = d,
              !.update = t,
              !.vel = <<PerTime(dxy[1], time), PerTime(dxy[2], time)>>]

ImuOdomMoved(o, t, d, time, diff_l, diff_r, diff_angle) ==
    ImuOdomApplied(o, t, d, time, diff_l, diff_r, diff_angle,
                   Displacement(diff_l, diff_r,
                                get_angle(o.angles) + DivRound(diff_angle, 2)))

\* the part of DriveImuOdom::update after the encoders were read: ad is the
\* result of get_angle_difference, a failed read takes last_difference
ImuOdomTurned(o, t, d, ad) ==
    ImuOdomMoved(ad.o, t, d, t - o.update, d[1] - o.dist[1], d[2] - o.dist[2],
                 IF IsSome(ad.diff) THEN Unwrap(ad.diff) ELSE o.last_difference)

\* DriveImuOdom::update with every early return taken at once: the encoders
\* are read and the state written although the call comes too early or the
\* encoders are unavailable
DriveImuOdomUpdateEager(o, t, encoders, imu) ==
    ImuOdomTurned(o, t, IF IsSome(encoders) THEN Unwrap(encoders) ELSE o.dist,
                  get_angle_difference(o, imu))

\* DriveImuOdom::update at instant t
DriveImuOdomUpdate(o, t, encoders, imu) ==
    IF t - o.update < ImuOdomInterval THEN o
    ELSE IF ~IsSome(encoders) THEN o
    ELSE ImuOdomTurned(o, t, Unwrap(encoders), get_angle_difference(o, imu))

\* diff_angle of DriveOdom::update in degrees: 0.5 * (diff_r - diff_l) / dw rad
DriveOdomDiffAngle(diff_l, diff_r) ==
    DivRound((diff_r - diff_l) * 10 * 90 * 1000, 3142 * dw)

DriveOdomApplied(o, t, d, time, diff_l, diff_r, diff_angle, dxy) ==
    [o EXCEPT !.side_vels = <<RingPush(o.side_vels[1], PerTime(diff_l, time), 5),
                              RingPush(o.side_vels[2], PerTime(diff_r, time), 5)>>,
              !.pos = <<o.pos[1] - dxy[1], o.pos[2] + dxy[2]>>,
              !.angle = o.angle + diff_angle,
              !.dist = d,
              !.update = t,
              !.vel = <<PerTime(dxy[1], time), PerTime(dxy[2], time)>>]

DriveOdomMoved(o, t, d, time, diff_l, diff_r, diff_angle) ==
    DriveOdomApplied(o, t, d, time, diff_l, diff_r, diff_angle,
                     Displacement(diff_l, diff_r, o.angle + DivRound(diff_angle, 2)))

DriveOdomTurned(o, t, d, diff_l, diff_r) ==
    DriveOdomMoved(o, t, d, t - o.update, diff_l, diff_r,
                   DriveOdomDiffAngle(diff_l, diff_r))

\* DriveOdom::update at instant t
DriveOdomUpdate(o, t, encoders) ==
    IF t - o.update < DriveOdomInterval THEN o
    ELSE IF ~IsSome(encoders) THEN o
    ELSE DriveOdomTurned(o, t, Unwrap(encoders),
                         Unwrap(encoders)[1] - o.dist[1],
                         Unwrap(encoders)[2] - o.dist[2])

\* whether a call of update at instant t with these encoders returns early
ReturnsEarly(o, t, encoders, interval) == t - o.update < interval \/ ~IsSome(encoders)

\* the calls of update of one run, and what they are given
MaxCalls == 4
OdomDelays == {50, 150}
OdomEncoders == {None, Some(<<40, 60>>), Some(<<100, 100>>)}
ImuEncoders == {None, Some(<<40, 60>>), Some(<<100, 100>>)}
ImuReads == {None, Some(0), Some(120), Some(170), Some(400)}

\* What is recorded of a run: the calls made, the inputs of the last call and
\* the object before it, the failed and successful IMU reads, and the object a
\* hold-last odometry would be: the same calls, every failed read replaced by
\* the value of the previous successful read
OdomHist(calls, early, before, fails, reads, fail_after_read, held) ==
    [calls |-> calls, early |-> early, before |-> before, fails |-> fails,
     reads |-> reads, fail_after_read |-> fail_after_read, held |-> held]

OdomUnused ==
    /\ segments = <<>>
    /\ current_segment = None
    /\ pid = NewPid
    /\ motors = [m \in MotorIds |-> 0]
    /\ out = None
    /\ result = None

InitOdom ==
    /\ impl \in {"imu_odom", "drive_odom"}
    /\ odom = IF impl = "imu_odom" THEN DriveImuOdomNew(0) ELSE DriveOdomNew(0)
    /\ now = 0
    /\ pc = "idle"
    /\ args = None
    /\ hist = OdomHist(0, FALSE, odom, 0, 0, FALSE, odom)
    /\ OdomUnused

\* the read a hold-last odometry takes in place of imu
HeldRead(o, imu) == IF ImuReadOk(imu) THEN imu ELSE Some(Back(o.headings))

ImuOdomHist(h, o, t, encoders, imu) ==
    IF ReturnsEarly(o, t, encoders, ImuOdomInterval)
    THEN OdomHist(h.calls + 1, TRUE, o, h.fails, h.reads, h.fail_after_read, h.held)
    ELSE OdomHist(h.calls + 1, FALSE, o,
                  h.fails + (IF ImuReadOk(imu) THEN 0 ELSE 1),
                  h.reads + (IF ImuReadOk(imu) THEN 1 ELSE 0),
                  h.fail_after_read \/ (~ImuReadOk(imu) /\ h.reads > 0),
                  DriveImuOdomUpdate(h.held, t, encoders, HeldRead(o, imu)))

\* one call of DriveImuOdom::update; headings.back().unwrap() panics on an
\* empty buffer
ImuOdomCall(dt, encoders, imu) ==
    /\ args' = [dt |-> dt, encoders |-> encoders, imu |-> imu]
    /\ now' = now + dt
    /\ odom' = DriveImuOdomUpdate(odom, now + dt, encoders, imu)
    /\ pc' = IF ~ReturnsEarly(odom, now + dt, encoders, ImuOdomInterval)
                 /\ IsSome(imu) /\ odom.headings = <<>>
             THEN "panic" ELSE "idle"
    /\ hist' = ImuOdomHist(hist, odom, now + dt, encoders, imu)

ImuOdomUpdate ==
    /\ impl = "imu_odom" /\ pc = "idle" /\ hist.calls < MaxCalls
    /\ \E dt \in OdomDelays, encoders \in ImuEncoders, imu \in ImuReads :
           ImuOdomCall(dt, encoders, imu)
    /\ UNCHANGED <<impl, segments, current_segment, pid, motors, out, result>>

DriveOdomCall(dt, encoders) ==
    /\ args' = [dt |-> dt, encoders |-> encoders, imu |-> None]
    /\ now' = now + dt
    /\ odom' = DriveOdomUpdate(odom, now + dt, encoders)
    /\ pc' = "idle"
    /\ hist' = OdomHist(hist.calls + 1,
                        ReturnsEarly(odom, now + dt, encoders, DriveOdomInterval),
                        odom, 0, 0, FALSE, odom')

DriveOdomStep ==
    /\ impl = "drive_odom" /\ pc = "idle" /\ hist.calls < MaxCalls
    /\ \E dt \in OdomDelays, encoders \in OdomEncoders : DriveOdomCall(dt, encoders)
    /\ UNCHANGED <<impl, segments, current_segment, pid, motors, out, result>>

NextOdom == ImuOdomUpdate \/ DriveOdomStep

SpecOdom == InitOdom /\ [][NextOdom]_vars

\* C13: when one IMU read of a run failed (Err or out of range) after a
\* successful one, the heading DriveImuOdom has accumulated equals the heading
\* accumulated from the same reads with the failed one replaced by the value of
\* the previous successful read
C13_FaultHoldsLast ==
    (impl = "imu_odom" /\ hist.fails = 1 /\ hist.fail_after_read) =>
        Back(odom.angles) = Back(hist.held.angles)


\* the fields of the odometry object C14 names: position, heading, the stored
\* side distances and the velocity buffers
OdomPose(o) ==
    IF impl = "imu_odom"
    THEN <<o.pos, o.angles, o.dist, o.side_vel, o.vel>>
    ELSE <<o.pos, o.angle, o.dist, o.side_vels, o.vel>>

MinInterval == IF impl = "imu_odom" THEN ImuOdomInterval ELSE DriveOdomInterval

C14_Step ==
    (/\ impl \in {"imu_odom", "drive_odom"}
     /\ hist'.calls = hist.calls + 1
     /\ (args'.encoders = None \/ now' - odom.update < MinInterval))
        => (OdomPose(odom') = OdomPose(odom) /\ pc' # "panic")

\* C14: a call of DriveImuOdom::update or DriveOdom::update that finds the
\* encoders unavailable, or comes sooner than 15 ms (5.2 ms) after the last
\* applied update, leaves position, heading, side distances and velocity
\* buffers as they were and does not panic
C14_EarlyReturnKeepsPose == [][C14_Step]_vars

C14_Witness ==
    /\ impl = "imu_odom" /\ hist.calls > 1 /\ hist.early
    /\ odom.pos # <<0, 0>> /\ Len(odom.angles) > 1
    /\ (args.encoders = None \/ now - odom.update < ImuOdomInterval)
    /\ OdomPose(odom) = OdomPose(hist.before)

C20_Step ==
    (/\ impl = "imu_odom"
     /\ hist.reads > 0 /\ hist'.reads = hist.reads + 1
     /\ Unwrap(args'.imu) >= 0 /\ Unwrap(args'.imu) < 360
     /\ Back(odom.headings) >= 0 /\ Back(odom.headings) < 360)
        => /\ (Back(odom'.angles) - Back(odom.angles)
                  - (Unwrap(args'.imu) - Back(odom.headings))) % 360 = 0
           /\ Abs(Back(odom'.angles) - Back(odom.angles)) <= 180

\* C20: for two consecutive successful raw IMU headings in [0, 360) the delta
\* DriveImuOdom::update adds to the accumulated heading is congruent to
\* raw - previous modulo 360 degrees and at most 180 degrees in magnitude
C20_ShortestRotation == [][C20_Step]_vars

-----------------------------------------------------------------------------
(* pid.rs: Pid.  Errors and targets in degrees, instants in ms, gains as
   integers.  An f64 result is finite with a value, or one of the values a
   division by zero gives: an infinity or NaN *)

Finite(v) == [kind |-> "finite", value |-> v]
NonFinite(kind) == [kind |-> kind, value |-> 0]

\* n / d in f64
F64Div(n, d) ==
    IF d # 0 THEN Finite(DivRound(n, d))
    ELSE IF n > 0 THEN NonFinite("inf")
    ELSE IF n < 0 THEN NonFinite("-inf")
    ELSE NonFinite("nan")

\* a + x in f64 for a finite a
F64Add(a, x) == IF x.kind = "finite" THEN Finite(a + x.value) ELSE x

\* Pid::new at instant t
PidNew(kp, ki, kd, target, t) ==
    [proportional_gain |-> kp, integral_gain |-> ki, derivitive_gain |-> kd,
     target |-> target, integral_accum |-> 0, prev_err |-> 0, time |-> t]

\* Pid::compute from err and dt on: int_term is clamped into
\* (NEG_INFINITY, INFINITY), that is, not at all
PidComputed(p, current, err, dt, int_term) ==
    [pid |-> [p EXCEPT !.integral_accum = int_term, !.prev_err = err,
                       !.time = current],
     out |-> F64Add(p.proportional_gain * err + int_term,
                    F64Div(p.derivitive_gain * (err - p.prev_err), dt))]

PidErr(p, current, err, dt) ==
    PidComputed(p, current, err, dt, p.integral_accum + p.integral_gain * err * dt)

\* Pid::compute at instant current: the object afterwards and the value
\* returned
compute(p, current, pv) == PidErr(p, current, p.target - pv, current - p.time)

\* the calls made on one Pid, and what they are given
MaxPidCalls == 3
PidGains == {<<3, 1, 2>>, <<2, 0, 0>>}
PidTargets == {-20, 0, 30}
PidValues == {-10, 0, 10, 25}
PidDelays == {0, 1, 2}
PidHeadings == {0, 350}

\* what is recorded of a run: the calls made, the last operation, and the
\* value the previous compute returned
PidHist(calls, op, prev_out) == [calls |-> calls, op |-> op, prev_out |-> prev_out]

PidUnused ==
    /\ segments = <<>>
    /\ motors = [m \in MotorIds |-> 0]
    /\ odom = ZeroReading
    /\ pc = "idle"
    /\ result = None

InitPid ==
    /\ impl = "pid"
    /\ \E g \in PidGains, target \in PidTargets : pid = PidNew(g[1], g[2], g[3], target, 0)
    /\ now = 0
    /\ out = None
    /\ current_segment = None
    /\ args = None
    /\ hist = PidHist(0, "new", None)
    /\ PidUnused

PidComputeCall(dt, pv) ==
    /\ args' = [dt |-> dt, pv |-> pv]
    /\ now' = now + dt
    /\ pid' = compute(pid, now + dt, pv).pid
    /\ out' = Some(compute(pid, now + dt, pv).out)
    /\ hist' = PidHist(hist.calls + 1, "compute", out)

PidCompute ==
    /\ impl = "pid" /\ hist.calls < MaxPidCalls
    /\ \E dt \in PidDelays, pv \in PidValues : PidComputeCall(dt, pv)
    /\ UNCHANGED <<impl, segments, current_segment, motors, odom, pc, result>>

PidSetTargetCall ==
    /\ impl = "pid" /\ hist.calls < MaxPidCalls
    /\ \E target \in PidTargets :
           /\ args' = [target |-> target]
           /\ pid' = PidSetTarget(pid, target)
    /\ hist' = PidHist(hist.calls + 1, "set_target", hist.prev_out)
    /\ UNCHANGED <<impl, segments, current_segment, motors, odom, pc, result, now, out>>

\* TurnTo::start of path.rs on this Pid: a TurnTo to target is started on the
\* heading h and becomes the current segment
PidTurnStarted(h, target, started) ==
    /\ args' = [heading |-> h, target |-> target]
    /\ pid' = started.pid
    /\ current_segment' = Some(started.seg)

PidTurnStart ==
    /\ impl = "pid" /\ hist.calls < MaxPidCalls
    /\ \E h \in PidHeadings, target \in PidTargets :
           PidTurnStarted(h, target,
                          TurnToStart([Segment("TurnTo") EXCEPT !.target_heading = target],
                                      Reading(h, 0, <<0, 0>>, <<0, 0>>), pid))
    /\ hist' = PidHist(hist.calls + 1, "start", hist.prev_out)
    /\ UNCHANGED <<impl, segments, motors, odom, pc, result, now, out>>

NextPid == PidCompute \/ PidSetTargetCall \/ PidTurnStart

SpecPid == InitPid /\ [][NextPid]_vars

C16_Step ==
    (/\ impl = "pid"
     /\ hist.op = "compute" /\ hist'.op = "compute"
     /\ pid.prev_err * (pid.target - args'.pv) < 0)
        => pid'.integral_accum = 0

\* C16: at every Pid::compute whose error has the opposite sign of the error
\* of the compute before it, the integral accumulator is 0 afterwards
C16_CleggReset == [][C16_Step]_vars

C17_Step ==
    /\ (impl = "pid" /\ hist'.op = "set_target")
           => /\ pid'.target = args'.target
              /\ pid'.integral_accum = 0 /\ pid'.prev_err = 0
    /\ (impl = "pid" /\ hist'.op = "start")
           => /\ pid'.target = Unwrap(current_segment').target_heading
              /\ optimise_target_heading(args'.heading, args'.target) = pid'.target
              /\ pid'.integral_accum = 0 /\ pid'.prev_err = 0

\* C17: after Pid::set_target the target is the given one and the accumulator
\* and the previous error are 0; after TurnTo::start the PID's target is the
\* resolved target heading of the segment and the PID is reset
C17_TargetChangeResets == [][C17_Step]_vars

C17_Witness ==
    /\ impl = "pid" /\ hist.op = "start" /\ hist.calls = 3
    /\ IsSome(out) /\ Unwrap(out).kind = "finite" /\ Unwrap(out).value # 0
    /\ pid.target = 390 /\ pid.integral_accum = 0 /\ pid.prev_err = 0

C18_Step ==
    (impl = "pid" /\ hist.op = "compute" /\ hist'.op = "compute" /\ now' = pid.time)
        => /\ Unwrap(out').kind = "finite"
           /\ (Unwrap(out').value = 0 \/ out' = out)

\* C18: a Pid::compute called with no time elapsed since the previous compute
\* returns a finite value: the previous output or zero
C18_ZeroDtGuarded == [][C18_Step]_vars

-----------------------------------------------------------------------------
(* The control loops: Robot::main_loop of robota.rs and Robot::run of lib.rs.
   pc is the statement of the loop body that runs next; hist.order lists what
   the current pass of the loop has done so far *)

\* RobotState of robota.rs and CompetitionState of lib.rs
RobotStates ==
    {"Off", "Disabled", "AutonSkills", "DriverAuton", "DriverSkills", "DriverDriver"}
CompetitionStates == {"Disabled", "Autonomous", "UserControl"}

\* whether the routine chosen by the match on the state follows the path:
\* auton_skills and auton of robota.rs, self.autonomous of lib.rs
FollowsPath(state) == state \in {"AutonSkills", "DriverAuton", "Autonomous"}

\* the loop body with the routine called before the odometry update
LoopAfterRoutineFirst(step) ==
    CASE step = "input" -> "routine"
      [] step = "routine" -> "odom"
      [] step = "odom" -> "write"
      [] step = "write" -> "delay"
      [] step = "delay" -> "input"

\* the statement after a statement of the loop body:
\*   robota.rs: handle_events and brain.update_state; odom.calc_position;
\*              match self.state; brain.write_changes; thread::sleep
\*   lib.rs:    input update and compute_comp_state; odom.update;
\*              match self.competition; write_serial_output; loop_delay
LoopAfter(step) ==
    CASE step = "input" -> "odom"
      [] step = "odom" -> "routine"
      [] step = "routine" -> "write"
      [] step = "write" -> "delay"
      [] step = "delay" -> "input"

MaxTicks == 3

LoopUnused ==
    /\ segments = <<>>
    /\ current_segment = None
    /\ pid = NewPid
    /\ motors = [m \in MotorIds |-> 0]
    /\ result = None

\* args is self.state (self.competition), odom counts the odometry updates,
\* out the writes to the brain, now the passes of the loop that are over
InitLoop ==
    /\ impl \in {"robota", "lib"}
    /\ args = IF impl = "robota" THEN "Off" ELSE "Disabled"
    /\ odom = 0
    /\ out = 0
    /\ now = 0
    /\ pc = "input"
    /\ hist = [order |-> <<>>]
    /\ LoopUnused

LoopDid(event) == hist' = [order |-> Append(hist.order, event)]

\* mutant: the odometry is reset in every pass in an autonomous state
ResetsOdomInAuton(old_state, new_state) ==
    new_state \in {"AutonSkills", "DriverAuton"}

\* robota.rs 139-146: whether the pass resets the odometry
ResetsOdom(old_state, new_state) ==
    new_state # old_state /\ new_state \in {"AutonSkills", "DriverAuton"}

\* robota.rs 135-147: the new state is taken; the odometry is reset when the
\* state changes to an autonomous one.  lib.rs 88-95.
LoopInput ==
    /\ impl \in {"robota", "lib"} /\ pc = "input"
    /\ args' \in (IF impl = "robota" THEN RobotStates ELSE CompetitionStates)
    /\ odom' = IF impl = "robota" /\ ResetsOdom(args, args') THEN 0 ELSE odom
    /\ hist' = [order |-> hist.order \o
                    (IF impl = "robota" /\ ResetsOdom(args, args')
                     THEN <<"input", "reset">> ELSE <<"input">>)]
    /\ pc' = LoopAfter(pc)
    /\ UNCHANGED <<impl, segments, current_segment, pid, motors, result, out, now>>

\* self.odom.calc_position() and self.odom.update(&mut self.base)
LoopOdom ==
    /\ impl \in {"robota", "lib"} /\ pc = "odom"
    /\ odom' = odom + 1
    /\ LoopDid("odom")
    /\ pc' = LoopAfter(pc)
    /\ UNCHANGED <<impl, segments, current_segment, pid, motors, result, out, now, args>>

\* the match on the state: the routine of the state is called
LoopRoutine ==
    /\ impl \in {"robota", "lib"} /\ pc = "routine"
    /\ LoopDid(IF FollowsPath(args) THEN "follow" ELSE "other")
    /\ pc' = LoopAfter(pc)
    /\ UNCHANGED <<impl, segments, current_segment, pid, motors, result, out, now,
                   args, odom>>

\* self.brain.write_changes() and self.state.write_serial_output()
LoopWrite ==
    /\ impl \in {"robota", "lib"} /\ pc = "write"
    /\ out' = out + 1
    /\ LoopDid("write")
    /\ pc' = LoopAfter(pc)
    /\ UNCHANGED <<impl, segments, current_segment, pid, motors, result, now, args, odom>>

\* thread::sleep and loop_delay: the pass is over
LoopDelay ==
    /\ impl \in {"robota", "lib"} /\ pc = "delay" /\ now + 1 < MaxTicks
    /\ now' = now + 1
    /\ hist' = [order |-> <<>>]
    /\ pc' = LoopAfter(pc)
    /\ UNCHANGED <<impl, segments, current_segment, pid, motors, result, out, args, odom>>

NextLoop == LoopInput \/ LoopOdom \/ LoopRoutine \/ LoopWrite \/ LoopDelay

SpecLoop == InitLoop /\ [][NextLoop]_vars

Before(order, a, i) == \E j \in 1..(i - 1) : order[j] = a

\* C15: in every pass of the control loop that follows the path, the odometry
\* update of the pass comes before the routine that follows the path, and the
\* write to the brain comes after that routine
C15_OdomBeforePathBeforeWrite ==
    (impl \in {"robota", "lib"}) =>
        \A i \in 1..Len(hist.order) :
            /\ hist.order[i] = "follow" => Before(hist.order, "odom", i)
            /\ (hist.order[i] = "write" /\ FollowsPath(args))
                   => Before(hist.order, "follow", i)

C15_Witness ==
    /\ impl \in {"robota", "lib"} /\ now > 0
    /\ hist.order = <<"input", "odom", "follow", "write">>

-----------------------------------------------------------------------------
(* The ended path, under Spec *)

\* Path::ended of path.rs; for a path of path/mod.rs, the state in which
\* follow finds nothing to run
Ended == current_segment = None /\ segments = <<>>

\* what follow returns on an ended path: [0.0; 2] in path.rs, None in
\* path/mod.rs
ZeroCommand == IF impl = "stack" THEN Some(<<0, 0>>) ELSE Some(None)

C19_Step ==
    (impl \in {"stack", "queue"} /\ Ended /\ pc = "call")
        => /\ out' = ZeroCommand
           /\ pc' = "idle"
           /\ hist'.calls = <<>>
           /\ hist'.started = hist.started /\ hist'.active = hist.active
           /\ current_segment' = None /\ segments' = <<>>

C19_AllCompleted ==
    (impl \in {"stack", "queue"} /\ Ended) =>
        /\ hist.active = <<>>
        /\ \A i \in 1..Len(hist.built) :
               (impl = "queue" \/ hist.built[i].kind \in ConcreteKinds)
                   => \E j \in 1..Len(hist.ended) : hist.ended[j] = i

\* C19: a follow on a path with no current and no queued segment returns the
\* zero command, starts and calls no segment and leaves the path ended; and a
\* path is ended only when every segment that was started has ended and every
\* segment of the constructor's list has run to its end
C19_EndedIsTerminal == [][C19_Step]_vars /\ []C19_AllCompleted

C19_Witness ==
    /\ impl = "stack" /\ Ended /\ pc = "idle" /\ now > 1
    /\ ~hist.tick_ended /\ ~hist.tick_started /\ hist.calls = <<>>
    /\ Len(hist.ended) > 1
    /\ out = Some(<<0, 0>>)

-----------------------------------------------------------------------------
(* The direction of the displacement, under SpecOdom *)

\* the heading an odometry object has accumulated
Accumulated(o) == IF impl = "imu_odom" THEN Back(o.angles) ELSE o.angle

\* the position after a displacement of diff_dist = 0.5 * (diff_l + diff_r)
\* from pos along the midpoint of the headings before and after
MidpointMove(pos, diff_l, diff_r, before, after) ==
    <<pos[1] - Displacement(diff_l, diff_r, before + DivRound(after - before, 2))[1],
      pos[2] + Displacement(diff_l, diff_r, before + DivRound(after - before, 2))[2]>>

C21_Step ==
    (/\ impl \in {"imu_odom", "drive_odom"}
     /\ hist'.calls = hist.calls + 1 /\ ~hist'.early)
        => odom'.pos = MidpointMove(odom.pos, odom'.dist[1] - odom.dist[1],
                                    odom'.dist[2] - odom.dist[2],
                                    Accumulated(odom), Accumulated(odom'))

\* C21: every applied update of DriveOdom and of DriveImuOdom moves the
\* position by diff_dist along (accumulated heading before the update)
\* + 0.5 * diff_heading; with diff_heading = 0 that is the current heading
C21_MidpointHeading == [][C21_Step]_vars

-----------------------------------------------------------------------------
(* parts/imu.rs: Imu.  Instants and durations in units of 0.1 ms, the gyro
   rate (vec.z * 1.2768221) in hundredths of a degree per second, so that
   gyro * elapsed is an angle in millionths of a degree *)

\* Duration::from_micros(10_500), degree!(15.0) and degree!(0.007)
MinPollInterval == 105
SpikeAngle == 15000000
NoiseFloor == 7000

\* Imu::new at instant t
ImuNew(t) == [last_update |-> t, last_difference |-> 0]

ImuReturn(im, ret, read) == [imu |-> im, ret |-> ret, read |-> read]

\* Imu::angle_difference once the gyro was read: diff = gyro * elapsed
ImuSampled(im, t, diff) ==
    IF Abs(diff) > SpikeAngle THEN ImuReturn(im, None, TRUE)
    ELSE IF Abs(diff) < NoiseFloor
    THEN ImuReturn([last_update |-> t, last_difference |-> 0], None, TRUE)
    ELSE ImuReturn([last_update |-> t, last_difference |-> diff], Some(diff), TRUE)

\* Imu::angle_difference without the test of the elapsed time
angle_difference_unpaced(im, t, gyro) ==
    IF ~IsSome(gyro) THEN ImuReturn(im, None, TRUE)
    ELSE ImuSampled(im, t, Unwrap(gyro) * (t - im.last_update))

\* Imu::angle_difference that returns every sample it reads
angle_difference_unfiltered(im, t, gyro) ==
    IF t - im.last_update < MinPollInterval THEN ImuReturn(im, None, FALSE)
    ELSE IF ~IsSome(gyro) THEN ImuReturn(im, None, TRUE)
    ELSE ImuReturn([last_update |-> t,
                    last_difference |-> Unwrap(gyro) * (t - im.last_update)],
                   Some(Unwrap(gyro) * (t - im.last_update)), TRUE)

\* Imu::angle_difference at instant t; gyro is the value of raw.gyro_data():
\* None for Err, Some(rate) for Ok.  Yields the object afterwards, the value
\* returned and whether the gyro was read
angle_difference(im, t, gyro) ==
    IF t - im.last_update < MinPollInterval THEN ImuReturn(im, None, FALSE)
    ELSE IF ~IsSome(gyro) THEN ImuReturn(im, None, TRUE)
    ELSE ImuSampled(im, t, Unwrap(gyro) * (t - im.last_update))

\* the polls of one run, and what they are given
MaxPolls == 4
PollDelays == {50, 140}
GyroReads == {None, Some(0), Some(4), Some(-50), Some(2000), Some(-107143), Some(150000)}

ImuUnused ==
    /\ segments = <<>>
    /\ current_segment = None
    /\ pid = NewPid
    /\ motors = [m \in MotorIds |-> 0]
    /\ pc = "idle"
    /\ result = None

\* odom holds the Imu, out the value of the last poll; hist counts the polls
\* and the gyro reads and lists the instants at which the Imu took a sample
InitImu ==
    /\ impl = "imu"
    /\ odom = ImuNew(0)
    /\ now = 0
    /\ out = None
    /\ args = None
    /\ hist = [calls |-> 0, reads |-> 0, taken |-> <<0>>]
    /\ ImuUnused

ImuPolled(dt, gyro, r) ==
    /\ args' = [dt |-> dt, gyro |-> gyro]
    /\ now' = now + dt
    /\ odom' = r.imu
    /\ out' = Some(r.ret)
    /\ hist' = [calls |-> hist.calls + 1,
                reads |-> hist.reads + (IF r.read THEN 1 ELSE 0),
                taken |-> IF r.imu.last_update # odom.last_update
                          THEN Append(hist.taken, r.imu.last_update) ELSE hist.taken]

ImuPoll ==
    /\ impl = "imu" /\ hist.calls < MaxPolls
    /\ \E dt \in PollDelays, gyro \in GyroReads :
           ImuPolled(dt, gyro, angle_difference(odom, now + dt, gyro))
    /\ UNCHANGED <<impl, segments, current_segment, pid, motors, pc, result>>

NextImu == ImuPoll

SpecImu == InitImu /\ [][NextImu]_vars

\* the angle a poll computes from what it is given
PolledDiff == Unwrap(args'.gyro) * (now' - odom.last_update)
PollSamples ==
    impl = "imu" /\ hist'.calls = hist.calls + 1 /\ IsSome(args'.gyro)
        /\ now' - odom.last_update >= MinPollInterval

C22_Step ==
    /\ (impl = "imu" /\ hist'.calls = hist.calls + 1 /\ IsSome(Unwrap(out')))
           => /\ Abs(Unwrap(Unwrap(out'))) >= NoiseFloor
              /\ Abs(Unwrap(Unwrap(out'))) <= SpikeAngle
    /\ (PollSamples /\ Abs(PolledDiff) > SpikeAngle)
           => (Unwrap(out') = None /\ odom'.last_difference = odom.last_difference)
    /\ (PollSamples /\ Abs(PolledDiff) < NoiseFloor)
           => odom'.last_difference = 0

\* C22: every Some(d) of Imu::angle_difference has 0.007 degrees <= |d| <= 15
\* degrees; a sample over 15 degrees gives None and leaves last_difference, a
\* sample under 0.007 degrees sets last_difference to 0
C22_DeltaPlausible == [][C22_Step]_vars

C22_Witness ==
    /\ impl = "imu" /\ hist.calls = 3 /\ hist.reads = 3
    /\ out = Some(None) /\ args.gyro = Some(150000)
    /\ odom.last_difference = -50 * 140 /\ Len(hist.taken) = 3

C23_Step ==
    (impl = "imu" /\ hist'.calls = hist.calls + 1
         /\ now' - odom.last_update < MinPollInterval)
        => /\ Unwrap(out') = None
           /\ hist'.reads = hist.reads
           /\ odom' = odom

C23_Spaced ==
    impl = "imu" =>
        \A i \in 1..(Len(hist.taken) - 1) :
            hist.taken[i + 1] - hist.taken[i] >= MinPollInterval

\* C23: a poll less than 10.5 ms after the last sample taken returns None,
\* does not read the gyro and leaves last_update and last_difference; two
\* samples taken are never less than 10.5 ms apart
C23_MinPollSpacing == [][C23_Step]_vars /\ []C23_Spaced

C23_Witness ==
    /\ impl = "imu" /\ hist.calls = 4 /\ hist.reads = 2
    /\ Len(hist.taken) = 3 /\ now - odom.last_update = 50
    /\ out = Some(None) /\ odom.last_difference # 0

-----------------------------------------------------------------------------
(* motion_profile.rs: get_profile_velocity.  Lengths in mm, so that the 1e-6
   square metres under which a squared distance is not taken are 1 square mm.
   Indices count from 0 as in the code *)

\* dist of get_profile_velocity: (pos - point).coords.magnitude_squared()
ProfileDist(pos, point) ==
    (pos[1] - point[1]) * (pos[1] - point[1]) + (pos[2] - point[2]) * (pos[2] - point[2])

\* the reduce over the enumerated points: a is kept while it is strictly
\* nearer than the next point b
RECURSIVE NearestFrom(_, _, _, _)
NearestFrom(points, pos, a, b) ==
    IF b >= Len(points) THEN a
    ELSE NearestFrom(points, pos,
                     IF ProfileDist(pos, points[a + 1]) < ProfileDist(pos, points[b + 1])
                     THEN a ELSE b,
                     b + 1)

min_i(points, pos) == NearestFrom(points, pos, 0, 1)

\* three consecutive indices around the nearest point, moved inward at both
\* ends of the profile
indicies_consecutive(i, len) ==
    IF i = 0 THEN <<0, 1, 2>>
    ELSE IF i = len - 1 THEN <<len - 3, len - 2, len - 1>>
    ELSE <<i - 1, i, i + 1>>

\* the indices get_profile_velocity interpolates between
indicies(i, len) ==
    IF i = 0 THEN <<0, 1, 3>>
    ELSE IF i = len - 1 THEN <<len - 3, len - 2, len - 1>>
    ELSE <<i - 1, i, i + 1>>

\* 1.0 / dist(&points[*i]).max(1e-6) is 1 / ProfileWeightInv
ProfileWeightInv(points, pos, i) == Max2(ProfileDist(pos, points[i + 1]), 1)

\* sum of (d / dist_sum) * v over distances.iter().zip(vel.iter()): the k-th
\* weight meets the k-th velocity of the profile.  With weights 1/a, 1/b, 1/c
ProfileSum(a, b, c, va, vb, vc) ==
    DivRound(va * b * c + vb * a * c + vc * a * b, b * c + a * c + a * b)

\* get_profile_velocity from the indices on: an index beyond the profile
\* panics; terms pairs the index of each weight with the index of the
\* velocity it multiplies
ProfileInterpolated(vel, points, pos, ix) ==
    IF \E k \in 1..3 : ix[k] < 0 \/ ix[k] >= Len(points)
    THEN [panic |-> TRUE, indicies |-> ix, terms |-> <<>>, value |-> 0]
    ELSE [panic |-> FALSE, indicies |-> ix,
          terms |-> [k \in 1..3 |-> <<ix[k], k - 1>>],
          value |-> ProfileSum(ProfileWeightInv(points, pos, ix[1]),
                               ProfileWeightInv(points, pos, ix[2]),
                               ProfileWeightInv(points, pos, ix[3]),
                               vel[1], vel[2], vel[3])]

\* get_profile_velocity((vel, points), pos) for profiles that pass its
\* assertions
get_profile_velocity(vel, points, pos) ==
    ProfileInterpolated(vel, points, pos, indicies(min_i(points, pos), Len(points)))

\* the profiles and positions sampled: 3 to MaxProfileLen points
\* 10 mm apart on a line
MaxProfileLen == 4
ProfilePoints(len) == [i \in 1..len |-> <<10 * (i - 1), 0>>]
ProfileVels(len) == {[i \in 1..len |-> 2 * i], [i \in 1..len |-> 5]}
ProfilePositions == {<<x, y>> : x \in {-5, 0, 4, 11, 19, 24, 30, 42}, y \in {0, 3}}

InitProfile ==
    /\ impl = "fn"
    /\ \E len \in 3..MaxProfileLen :
          args \in [fn : {"profile_velocity"}, points : {ProfilePoints(len)},
                    vel : ProfileVels(len), pos : ProfilePositions]
    /\ result = None
    /\ PathUnused

ProfileVelocityCall ==
    /\ impl = "fn" /\ args.fn = "profile_velocity" /\ result = None
    /\ result' = Some(get_profile_velocity(args.vel, args.points, args.pos))
    /\ UNCHANGED <<impl, args, pathVars>>

NextProfile == ProfileVelocityCall

SpecProfile == InitProfile /\ [][NextProfile]_vars

\* C24: for a profile of at least 3 samples get_profile_velocity does not
\* panic, interpolates between the three consecutive indices around the
\* nearest sample (moved inward at the ends), and every weight multiplies the
\* velocity of the index its distance was taken to
C24_NearestThree ==
    (args.fn = "profile_velocity" /\ IsSome(result) /\ Len(args.points) >= 3) =>
        /\ ~Unwrap(result).panic
        /\ Unwrap(result).indicies
               = indicies_consecutive(min_i(args.points, args.pos), Len(args.points))
        /\ \A k \in 1..3 : Unwrap(result).terms[k][1] = Unwrap(result).terms[k][2]

-----------------------------------------------------------------------------
(* SpecVelocity: velocity_profile of path.rs on paths along the axes from
   several start points; lengths in cm, the velocity in thousandths *)

MaxAlong == 230
VelocityStarts == {<<0, 0>>, <<50, 0>>, <<0, -30>>}
VelocityPaths == {<<200, 0>>, <<0, 200>>, <<100, 0>>}
VelocityAlong == {-20, 0, 50, 75, 100, 150, 200, MaxAlong}
VelocityAside == {0, 10}

\* the point `along` cm down the path and `aside` cm beside it
PointOnPath(start, path, along, aside) ==
    IF path[2] = 0 THEN <<start[1] + along, start[2] + aside>>
    ELSE <<start[1] + aside, start[2] + along>>

InitVelocity ==
    /\ impl = "fn"
    /\ args \in [fn : {"velocity_profile"}, start : VelocityStarts, path : VelocityPaths,
                 along : VelocityAlong, aside : VelocityAside]
    /\ result = None
    /\ PathUnused

\* velocity_profile(start, end, path_dist, pos) as MoveRel::follow calls it:
\* path_dist is the length of the path
VelocityProfileCall ==
    /\ impl = "fn" /\ args.fn = "velocity_profile" /\ result = None
    /\ result' = Some(velocity_profile(args.start, VecAdd(args.start, args.path),
                                       VecMag(args.path),
                                       PointOnPath(args.start, args.path, args.along,
                                                   args.aside)))
    /\ UNCHANGED <<impl, args, pathVars>>

NextVelocity == VelocityProfileCall

SpecVelocity == InitVelocity /\ [][NextVelocity]_vars

\* C25: velocity_profile is within [0, 1]; it is the floor 0.1 at the start
\* and for positions projected before the start, the cap 1.0 at the midpoint
\* of a path whose half-length exceeds the acceleration distance (0.75 m), and
\* 0 for positions projected beyond the end; from every start point
C25_ProfileEnds ==
    (args.fn = "velocity_profile" /\ IsSome(result)) =>
        /\ Unwrap(result) >= 0 /\ Unwrap(result) <= 1000
        /\ args.along <= 0 => Unwrap(result) = 100
        /\ (2 * args.along = VecMag(args.path) /\ VecMag(args.path) > 150)
               => Unwrap(result) = 1000
        /\ args.along > VecMag(args.path) => Unwrap(result) = 0

-----------------------------------------------------------------------------
(* Aux of path/auxiliary.rs, under Spec *)

\* the current segment is an Aux whose timer is running: the frame calls its
\* follow
AuxFollowed ==
    /\ impl = "queue" /\ pc = "call" /\ IsSome(current_segment)
    /\ Unwrap(current_segment)[1].kind = "Aux"
    /\ ~TimerDone(Unwrap(current_segment)[2], now)

\* what the main segment's follow leaves when it is called after the
\* auxiliary's follow (a: what that left)
MainAfter(seg, a, od) == QSegFollow(Unwrap(seg.main)[1], od, a.pid, a.motors)
MainAfterAux(seg, od, p, m) ==
    MainAfter(seg, QSegFollow(Unwrap(seg.aux)[1], od, p, m), od)

C26_Main == MainAfterAux(Unwrap(current_segment)[1], odom, pid, motors)

C26_Step ==
    AuxFollowed =>
        /\ IsSome(C26_Main.res)
               => /\ out' = Some(C26_Main.res)
                  /\ pc' = "idle"
                  /\ IsSome(current_segment')
                  /\ Unwrap(current_segment')[1].id = Unwrap(current_segment)[1].id
                  /\ pid' = C26_Main.pid /\ motors' = C26_Main.motors
        /\ ~IsSome(C26_Main.res)
               => /\ hist'.ended = Append(hist.ended, Unwrap(current_segment)[1].id)
                  /\ (current_segment' = None
                          \/ Unwrap(current_segment')[1].id # Unwrap(current_segment)[1].id)

\* C26: a follow of an Aux calls the auxiliary's follow, then the main's on
\* what the auxiliary left, and returns the main's result: the Aux stays
\* current with that command when the main returns Some, and is over when the
\* main returns None, whatever the auxiliary returned
C26_AuxReturnsMain == [][C26_Step]_vars

C26_Witness ==
    /\ impl = "queue" /\ pc = "idle" /\ IsSome(current_segment)
    /\ Unwrap(current_segment)[1].kind = "Aux"
    /\ Unwrap(Unwrap(current_segment)[1].aux)[1].kind = "PowerMotors"
    /\ hist.calls = <<<<"follow", Unwrap(current_segment)[1]>>>>
    /\ IsSome(out) /\ IsSome(Unwrap(out)) /\ Unwrap(Unwrap(out)) # <<0, 0>>
    /\ motors[2] = -6000

-----------------------------------------------------------------------------
(* SpecCond: paths of path/mod.rs that hold an OdomCond *)

CondTemplates ==
    { <<QSegment("Nop"), Timer(1, 0)>>,
      <<[QSegment("SetVel") EXCEPT !.vel = <<100, 100>>], Timer(1, 0)>>,
      <<[QSegment("OdomCond") EXCEPT
            !.cond = 45,
            !.a = Some(<<[QSegment("SetVel") EXCEPT !.vel = <<50, 50>>, !.id = -2],
                         Timer(1, 0)>>),
            !.b = Some(<<[QSegment("Nop") EXCEPT !.id = -1], Timer(1, 0)>>)],
        Timer(DefaultDuration, 0)>> }

InitCond ==
    /\ impl = "queue"
    /\ \E list \in SeqsUpTo(CondTemplates, MaxSegs) :
          /\ segments = QPathNew(QWithIds(list))
          /\ hist = [NoHist EXCEPT !.built = QWithIds(list)]
    /\ current_segment = None
    /\ pid = NewPid
    /\ motors = [m \in MotorIds |-> 0]
    /\ odom = ZeroReading
    /\ now = 0
    /\ pc = "idle"
    /\ out = None
    /\ args = None /\ result = None

NextCond == QueueTick \/ QueueFollow

SpecCond == InitCond /\ [][NextCond]_vars

\* a frame is about to fetch an OdomCond from the front of the queue
CondIsNext ==
    /\ impl = "queue" /\ pc = "call"
    /\ current_segment = None /\ segments # <<>>
    /\ Head(segments)[1].kind = "OdomCond"

C27_Step ==
    CondIsNext =>
        /\ pc' # "panic"
        /\ IsSome(current_segment')
        /\ Unwrap(current_segment')[1].id = OdomCondTransform(Head(segments)[1], odom)[1].id
        /\ \A i \in 1..Len(hist'.calls) : hist'.calls[i][2].kind # "OdomCond"

\* C27: when an OdomCond is the next segment of a path of path/mod.rs, the
\* frame that fetches it makes the branch chosen by the condition on the
\* odometry of the tick current, and calls neither start_follow, follow nor
\* end_follow of the OdomCond itself
C27_CondResolved == [][C27_Step]_vars

-----------------------------------------------------------------------------
(* The recursion depth of Path::follow of path.rs *)

\* C28: every call of Path::follow of path.rs returns after a bounded number
\* of recursive calls: on a fixed odometry reading no frame of a call is
\* entered in a state of the path (deque, current segment, PID) in which an
\* earlier frame of the same call was entered, for a frame is a function of
\* that state and the reading, so that a repeated state repeats forever.
C28_FollowReturns == impl = "stack" => ~hist.looped

-----------------------------------------------------------------------------
(* SpecTimer: paths of path/mod.rs whose segments end by their timers only,
   followed in every tick *)

TimerDurations == {1, 2}

\* segments that never report completion themselves
TimerTemplates ==
    { <<QSegment("Nop"), Timer(d, 0)>> : d \in TimerDurations } \cup
    { <<[QSegment("SetVel") EXCEPT !.vel = <<100, 100>>], Timer(1, 0)>>,
      <<[QSegment("PowerMotors") EXCEPT !.voltages = <<6000>>, !.motors = <<1>>], Timer(1, 0)>> }

TimerReadings ==
    { Reading(0, 0, <<0, 0>>, <<0, 0>>),
      Reading(90, 0, <<0, 0>>, <<0, 0>>) }

LongestDuration == CHOOSE d \in TimerDurations : \A e \in TimerDurations : e <= d

\* the ticks modelled: more than every segment of a path needs to time out
TimerTicks == MaxSegs * (LongestDuration + 2) + 2

InitTimer ==
    /\ impl = "queue"
    /\ \E list \in SeqsUpTo(TimerTemplates, MaxSegs) :
          /\ segments = QPathNew(QWithIds(list))
          /\ hist = [NoHist EXCEPT !.built = QWithIds(list)]
    /\ current_segment = None
    /\ pid = NewPid
    /\ motors = [m \in MotorIds |-> 0]
    /\ odom = ZeroReading
    /\ now = 0
    /\ pc = "idle"
    /\ out = None
    /\ args = None /\ result = None

TimerTick == QueueTickOn(TimerReadings, TimerTicks)

NextTimer == TimerTick \/ QueueFollow

\* lib.rs Robot::run loops for ever: the routine calls follow in every tick
SpecTimer == InitTimer /\ [][NextTimer]_vars /\ WF_vars(NextTimer)

\* the last follow returned None
PathEnded == impl = "queue" /\ pc = "idle" /\ out = Some(None)

\* the ticks for which the current segment has been current
CurrentFor == now - Unwrap(current_segment)[2].start

C29_Bounded ==
    IsSome(current_segment) =>
        /\ CurrentFor <= Unwrap(current_segment)[2].duration + 1
        /\ pc = "idle" => CurrentFor <= Unwrap(current_segment)[2].duration

C29_Ends == <>PathEnded

-----------------------------------------------------------------------------
(* SpecTurnRel: a relative turn of path.rs from its transform to its start *)

TurnRelAngles == {-450, -270, -181, -180, -90, -1, 0, 90, 180, 181, 270, 450}

InitTurnRel ==
    /\ impl = "fn"
    /\ args \in [fn : {"turn_rel"}, heading : AngleSamples, rel : TurnRelAngles]
    /\ result = None
    /\ PathUnused

\* Path::transform_segments on a path that holds MinSegment::TurnRel(args.rel),
\* on the heading args.heading: the segment is transformed and the TurnTo it
\* gives is started
TurnRelCall ==
    /\ impl = "fn" /\ args.fn = "turn_rel" /\ result = None
    /\ LET od == Reading(args.heading, 0, <<0, 0>>, <<0, 0>>)
           tr == TransformLoop(<<[Segment("MinTurnRel") EXCEPT !.target_heading = args.rel]>>,
                               od, NewPid, 0, <<>>)
       IN result' = Some([target |-> tr.pid.target,
                          seg_target |-> Unwrap(tr.current).target_heading,
                          transformed |-> MinSegmentTransform(tr.calls[1][2], od)[1].target_heading,
                          panic |-> tr.panic])
    /\ UNCHANGED <<impl, args, pathVars>>

NextTurnRel == TurnRelCall

SpecTurnRel == InitTurnRel /\ [][NextTurnRel]_vars

\* C30: a MinSegment::TurnRel(rel) turns the robot by exactly rel from the
\* heading at transform time: the target the angle PID is given when the
\* resulting TurnTo starts is that heading plus rel, also when rel is more
\* than half a revolution.
C30_RelativeTurnKept ==
    (args.fn = "turn_rel" /\ IsSome(result)) =>
        /\ ~Unwrap(result).panic
        /\ Unwrap(result).target = args.heading + args.rel

\* the transform keeps the turn, and the start keeps a turn of less than half
\* a revolution
TurnRelKeptWithinHalfTurn ==
    (args.fn = "turn_rel" /\ IsSome(result)) =>
        /\ Unwrap(result).transformed = args.heading + args.rel
        /\ Unwrap(result).seg_target = Unwrap(result).target
        /\ (-PI < args.rel /\ args.rel <= PI) => Unwrap(result).target = args.heading + args.rel
        /\ Abs(Unwrap(result).target - args.heading) <= PI

-----------------------------------------------------------------------------
(* Controller input: controller.rs and Brain::update_state of brain.rs, and
   InputState / InputChanges of state.rs.  A ControllerButtons value is the
   set of the buttons whose bit is set; time is counted in milliseconds. *)

Buttons == {"A", "B"}

\* brain.rs Packet, From<(Instant, StatusPkt)>
Packet(buttons, brain_state, auton_program) ==
    [buttons |-> buttons, brain_state |-> brain_state, auton_program |-> auton_program]

\* controller.rs From<[Packet; 2]> for Controller
ControllerFrom(buf) == [last |-> buf[2].buttons, current |-> buf[1].buttons]

\* Controller::bit_matches for a single button
bit_matches(button, matcher) == button \in matcher
held(c, button) == bit_matches(button, c.current)
released(c, button) == bit_matches(button, c.last) /\ ~bit_matches(button, c.current)
pressed(c, button) == ~bit_matches(button, c.last) /\ bit_matches(button, c.current)

\* Controller::update_no_change
update_no_change(c) == [c EXCEPT !.last = c.current]

\* robot.rs RobotState::from_brain_state
from_brain_state(brain_state, is_skills) ==
    CASE brain_state = "Disabled" -> "Disabled"
      [] brain_state = "Auton" /\ is_skills -> "AutonSkills"
      [] brain_state = "Auton" /\ ~is_skills -> "DriverAuton"
      [] brain_state = "Driver" /\ is_skills -> "DriverSkills"
      [] brain_state = "Driver" /\ ~is_skills -> "DriverDriver"

BRAIN_TIMEOUT == 500

\* Brain::init: the two first status packets fill pkt_buffer in the order in
\* which they were received, and the controller is made from the buffer
BrainInit(first, second, t) ==
    [pkt_buffer |-> <<first, second>>, last_update |-> t,
     controller |-> ControllerFrom(<<first, second>>)]

\* Brain::update_state, a status packet was taken:
\* pkt_buffer[1] = data_pkt.into(); pkt_buffer.swap(0, 1)
BrainTookPacket(b, pkt, t) ==
    [brain |-> [pkt_buffer |-> <<pkt, b.pkt_buffer[1]>>, last_update |-> t,
                controller |-> ControllerFrom(<<pkt, b.pkt_buffer[1]>>)],
     state |-> from_brain_state(pkt.brain_state, pkt.auton_program # 0)]

\* mutant: the connection is never given up
BrainTimedOutNever(b, robot_state, t) == FALSE

\* Brain::update_state: the condition under which the connection counts as lost
BrainTimedOut(b, robot_state, t) ==
    t - b.last_update > BRAIN_TIMEOUT /\ robot_state # "Off"

\* Brain::update_state, no status packet
BrainNoPacket(b, robot_state, t) ==
    [brain |-> [b EXCEPT !.controller = update_no_change(@)],
     state |-> IF BrainTimedOut(b, robot_state, t) THEN "Off" ELSE robot_state]

\* Brain::update_state at time t; pkt is what serial.take_status_pkt() gave
update_state(b, pkt, robot_state, t) ==
    IF IsSome(pkt)
    THEN BrainTookPacket(b, Unwrap(pkt), t)
    ELSE BrainNoPacket(b, robot_state, t)

\* state.rs InputChanges::NO_CHANGE (the axes are left out)
NO_CHANGE == [pressed |-> {}, released |-> {}, held |-> {}]

\* InputChanges::from_difference
from_difference(last, current) ==
    [pressed |-> current \ last, released |-> last \ current, held |-> current]

button_pressed(c, buttons) == c.pressed \cap buttons # {}
button_released(c, buttons) == c.released \cap buttons # {}

\* InputState::new
InputStateNew(v5_status) ==
    [v5_status |-> v5_status, v5_status_last |-> v5_status,
     controller |-> NO_CHANGE, replay_last |-> None]

\* InputState::update_v5_status
update_v5_status(s, v5_status) ==
    [s EXCEPT !.v5_status_last = s.v5_status,
              !.v5_status = v5_status,
              !.controller = from_difference(s.v5_status, v5_status)]

\* InputState::update_inputs
update_inputs(s) ==
    [s EXCEPT !.controller = [@ EXCEPT !.pressed = {}, !.released = {}]]

-----------------------------------------------------------------------------
(* replay.rs Player.  An event is <<diff time, InputChanges>>; the clock and
   the diff times are counted in the same unit.  The branch of get_events for
   more than u32::MAX units since `last` (about 119 hours) is beyond every
   time modelled and is left out. *)

\* Player::Off(events); cursor and last exist in Playing only
PlayerOff(events) == [playing |-> FALSE, events |-> events, cursor |-> 0, last |-> 0]

\* Player::play at time t
play(p, t) ==
    IF p.playing THEN p
    ELSE [playing |-> TRUE, events |-> p.events, cursor |-> 0, last |-> t]

\* Player::reset
reset(p) == IF p.playing THEN PlayerOff(p.events) ELSE p

is_playing(p) == p.playing

\* what get_events leaves and returns: the slice is events[from..to]
GotEvents(p, from, to) == [player |-> p, from |-> from, to |-> to]

\* the loop of Player::get_events at time t, entered with the cursor at
\* start_index
RECURSIVE GetEventsLoop(_, _, _, _, _)
GetEventsLoop(p, start_index, cursor, event_sum, t) ==
    IF cursor >= Len(p.events)
    THEN GotEvents(reset(p), start_index, cursor)
    ELSE IF t - p.last < event_sum + p.events[cursor + 1][1]
    THEN IF start_index = cursor
         THEN GotEvents(p, 0, 0)
         ELSE GotEvents([p EXCEPT !.cursor = cursor, !.last = t], start_index, cursor)
    ELSE GetEventsLoop(p, start_index, cursor + 1, event_sum + p.events[cursor + 1][1], t)

\* mutant: the cursor is not kept when a call returns events before the end
GetEventsForgetful(p, t) ==
    IF ~p.playing THEN GotEvents(p, 0, 0)
    ELSE GotEvents([GetEventsLoop(p, p.cursor, p.cursor, 0, t).player EXCEPT !.cursor = 0],
                   GetEventsLoop(p, p.cursor, p.cursor, 0, t).from,
                   GetEventsLoop(p, p.cursor, p.cursor, 0, t).to)

\* Player::get_events at time t
get_events(p, t) ==
    IF ~p.playing THEN GotEvents(p, 0, 0)
    ELSE GetEventsLoop(p, p.cursor, p.cursor, 0, t)

\* the slice a call of get_events returned
EventsOf(got) == SubSeq(got.player.events, got.from + 1, got.to)

\* InputState::overwrite_replay_input, the player is playing and returned got
ReplayOverwritten(s, got) ==
    IF EventsOf(got) # <<>>
    THEN [s EXCEPT !.replay_last = Some(EventsOf(got)[1][2]),
                   !.controller = EventsOf(got)[1][2]]
    ELSE IF IsSome(s.replay_last)
    THEN [s EXCEPT !.controller = Unwrap(s.replay_last)]
    ELSE s

\* InputState::overwrite_replay_input at time t; player is None or Some(p).
\* got is what get_events returned, None if it was not called
overwrite_replay_input(s, player, t) ==
    IF player = None
    THEN [input |-> s, player |-> player, got |-> None]
    ELSE IF ~is_playing(Unwrap(player))
    THEN [input |-> [s EXCEPT !.replay_last = None], player |-> None, got |-> None]
    ELSE [input |-> ReplayOverwritten(s, get_events(Unwrap(player), t)),
          player |-> Some(get_events(Unwrap(player), t).player),
          got |-> Some(get_events(Unwrap(player), t))]

\* lib.rs Robot::run 88-94: the input of one pass of the loop at time t; pkt is
\* what serial.take_status_pkt() gave
RunInput(s, player, pkt, t) ==
    overwrite_replay_input(IF IsSome(pkt) THEN update_v5_status(s, Unwrap(pkt))
                           ELSE update_inputs(s),
                           player, t)

-----------------------------------------------------------------------------
(* SpecInput: live controller input, in the loop of robota.rs ("controller":
   Brain and Controller) and in the loop of lib.rs ("input_state") *)

\* the status packets of a driver-control period, one for every set of buttons
InputPackets == { Packet(bs, "Driver", 0) : bs \in SUBSET Buttons }

InputUnused ==
    /\ segments = <<>>
    /\ current_segment = None
    /\ pid = NewPid
    /\ motors = [m \in MotorIds |-> 0]
    /\ pc = "idle"
    /\ result = None

\* odom holds the Brain or the InputState, args the robot state or the
\* player, out the packet the last pass took; hist.last_buttons are the
\* buttons of the last status packet received before that
InitInput ==
    /\ impl \in {"controller", "input_state"}
    /\ \E first \in InputPackets, second \in InputPackets :
          IF impl = "controller"
          THEN /\ odom = BrainInit(first, second, 0)
               /\ args = "DriverDriver"
               /\ hist = [ticks |-> 0, last_buttons |-> second.buttons]
          ELSE /\ odom = InputStateNew(first.buttons)
               /\ args = None
               /\ hist = [ticks |-> 0, last_buttons |-> first.buttons]
    /\ now = 0
    /\ out = None
    /\ InputUnused

InputPassed(pkt) ==
    /\ now' = now + 1
    /\ out' = pkt
    /\ hist' = [ticks |-> hist.ticks + 1,
                last_buttons |-> IF IsSome(out) THEN Unwrap(out).buttons
                                 ELSE hist.last_buttons]

\* robota.rs main_loop 138-147: brain.update_state and self.state = new_state
ControllerTick ==
    /\ impl = "controller" /\ hist.ticks < MaxTicks
    /\ \E pkt \in {None} \cup {Some(p) : p \in InputPackets} :
          /\ odom' = update_state(odom, pkt, args, now + 1).brain
          /\ args' = update_state(odom, pkt, args, now + 1).state
          /\ InputPassed(pkt)
    /\ UNCHANGED <<impl, segments, current_segment, pid, motors, pc, result>>

\* lib.rs Robot::run 88-94 without a player
InputStateTick ==
    /\ impl = "input_state" /\ hist.ticks < MaxTicks
    /\ \E pkt \in {None} \cup {Some(p) : p \in InputPackets} :
          /\ odom' = RunInput(odom, args,
                              IF IsSome(pkt) THEN Some(Unwrap(pkt).buttons) ELSE None,
                              now + 1).input
          /\ InputPassed(pkt)
    /\ UNCHANGED <<impl, args, segments, current_segment, pid, motors, pc, result>>

NextInput == ControllerTick \/ InputStateTick

SpecInput == InitInput /\ [][NextInput]_vars

\* what the routines of the pass read
PressedNow(in, button) ==
    IF impl = "controller" THEN pressed(in.controller, button)
    ELSE button_pressed(in.controller, {button})
ReleasedNow(in, button) ==
    IF impl = "controller" THEN released(in.controller, button)
    ELSE button_released(in.controller, {button})

\* the buttons of the last status packet received before the pass that just ran
ButtonsBefore == IF IsSome(out) THEN Unwrap(out).buttons ELSE hist.last_buttons

C31_Step ==
    (impl \in {"controller", "input_state"} /\ hist'.ticks = hist.ticks + 1) =>
        \A b \in Buttons :
            /\ PressedNow(odom', b) <=>
                   (IsSome(out') /\ b \in Unwrap(out').buttons /\ b \notin ButtonsBefore)
            /\ ReleasedNow(odom', b) <=>
                   (IsSome(out') /\ b \notin Unwrap(out').buttons /\ b \in ButtonsBefore)

\* C31: for live input, pressed(button) is true in a pass of the control loop
\* exactly if the pass consumed a status packet with the button bit set and
\* the status packet before it had the bit clear; it is false in every other
\* pass, with or without a packet; the same for released(button) with set and
\* clear exchanged.
C31_PressedOnce == [][C31_Step]_vars

\* the same for the passes of lib.rs, and for the passes of robota.rs after
\* the first status packet taken in the loop
PressedOnceAfterFirstPacket ==
    [][(impl = "input_state" \/ (impl = "controller" /\ odom.last_update > 0))
           => C31_Step]_vars

\* a press was reported by the Controller of robota.rs after the first packet
\* of the loop, and by the InputState of lib.rs
PressedOnceSeen ==
    /\ hist.ticks >= 2 /\ IsSome(out) /\ "A" \in Unwrap(out).buttons
    /\ "A" \notin hist.last_buttons
    /\ PressedNow(odom, "A")

-----------------------------------------------------------------------------
(* SpecReplay: the input of the loop of lib.rs while a Player is playing *)

\* Player::from_file: a line is <<diff time, pressed, released>>; held is
\* carried from line to line
RECURSIVE FromFileLines(_, _)
FromFileLines(lines, held_before) ==
    IF lines = <<>> THEN <<>>
    ELSE <<<<Head(lines)[1],
             [pressed |-> Head(lines)[2], released |-> Head(lines)[3],
              held |-> (held_before \cup Head(lines)[2]) \ Head(lines)[3]]>>>>
         \o FromFileLines(Tail(lines), (held_before \cup Head(lines)[2]) \ Head(lines)[3])

from_file(lines) == PlayerOff(FromFileLines(lines, {}))

MaxEvents == 3

\* the lines of a recording: a press or a release, at once or two units after
\* the line before
ReplayLines ==
    { <<d, c[1], c[2]>> : d \in {0, 2}, c \in {<<{"A"}, {}>>, <<{}, {"A"}>>, <<{"B"}, {}>>} }

ReplayDelays == {1, 2}

\* odom holds the InputState, args the player; hist lists the events that
\* get_events returned and the events that were written to the controller
\* input, and holds what the last pass got from get_events
InitReplay ==
    /\ impl = "replay"
    /\ odom = InputStateNew({})
    /\ \E lines \in SeqsUpTo(ReplayLines, MaxEvents) :
          args = Some(play(from_file(lines), 0))
    /\ hist = [ticks |-> 0, got |-> None, returned |-> <<>>, applied |-> <<>>]
    /\ now = 0
    /\ out = None
    /\ InputUnused

ReplayPassed(r) ==
    /\ odom' = r.input
    /\ args' = r.player
    /\ hist' = [ticks |-> hist.ticks + 1,
                got |-> r.got,
                returned |-> hist.returned \o
                             (IF IsSome(r.got) THEN EventsOf(Unwrap(r.got)) ELSE <<>>),
                applied |-> IF IsSome(r.got) /\ EventsOf(Unwrap(r.got)) # <<>>
                            THEN Append(hist.applied, <<0, r.input.controller>>)
                            ELSE hist.applied]

\* lib.rs Robot::run 88-94, the player is set
ReplayTick ==
    /\ impl = "replay" /\ hist.ticks < MaxTicks + MaxEvents
    /\ \E dt \in ReplayDelays, pkt \in {None, Some({})} :
          /\ now' = now + dt
          /\ out' = pkt
          /\ ReplayPassed(RunInput(odom, args, pkt, now + dt))
    /\ UNCHANGED <<impl, segments, current_segment, pid, motors, pc, result>>

NextReplay == ReplayTick

SpecReplay == InitReplay /\ [][NextReplay]_vars

\* the pass that just ran called get_events
PlayedPass == impl = "replay" /\ hist'.ticks = hist.ticks + 1 /\ IsSome(hist'.got)

C32_Step ==
    PlayedPass =>
        \A b \in Buttons :
            /\ EventsOf(Unwrap(hist'.got)) = <<>>
                   => ~button_pressed(odom'.controller, {b})
            /\ Len(EventsOf(Unwrap(hist'.got))) = 1
                   => (button_pressed(odom'.controller, {b})
                          <=> b \in EventsOf(Unwrap(hist'.got))[1][2].pressed)

\* C32: during replay controller.button_pressed(button) is true in the pass
\* of the control loop in which an event that presses the button falls due,
\* and false in the passes in which the player is asked and no new event is
\* due
C32_ReplayPressedOnce == [][C32_Step]_vars

\* the changes of the events of a list
ChangesOf(events) == [i \in DOMAIN events |-> events[i][2]]

\* C33: no recorded input is lost during replay: the events written to the
\* controller input are the events get_events returned, in order, also when
\* more than one event falls due in the same pass
C33_NoEventLost ==
    impl = "replay" => ChangesOf(hist.applied) = ChangesOf(hist.returned)

-----------------------------------------------------------------------------
(* SpecPlayer: a Player of replay.rs that is played, polled and reset *)

\* args holds the player, out what the last call of get_events returned;
\* hist lists the indices of the events returned since the last play and the
\* number of calls that returned events
InitPlayer ==
    /\ impl = "player"
    /\ \E lines \in SeqsUpTo(ReplayLines, MaxEvents) : args = from_file(lines)
    /\ hist = [calls |-> 0, op |-> "new", returned |-> <<>>, slices |-> 0]
    /\ odom = ZeroReading
    /\ now = 0
    /\ out = None
    /\ InputUnused

PlayerCalled(op, returned, slices) ==
    hist' = [calls |-> hist.calls + 1, op |-> op, returned |-> returned, slices |-> slices]

\* Player::play
PlayerPlay ==
    /\ impl = "player" /\ hist.calls < MaxTicks + MaxEvents
    /\ args' = play(args, now)
    /\ PlayerCalled("play", IF args.playing THEN hist.returned ELSE <<>>,
                    IF args.playing THEN hist.slices ELSE 0)
    /\ UNCHANGED <<impl, segments, current_segment, pid, motors, pc, result, odom, now, out>>

PlayerGot(got) ==
    /\ args' = got.player
    /\ out' = Some([from |-> got.from, to |-> got.to])
    /\ PlayerCalled("get_events",
                    hist.returned \o [i \in 1..(got.to - got.from) |-> got.from + i],
                    hist.slices + (IF got.to > got.from THEN 1 ELSE 0))

\* Player::get_events, some time after the call before
PlayerGetEvents ==
    /\ impl = "player" /\ hist.calls < MaxTicks + MaxEvents
    /\ \E dt \in ReplayDelays :
          /\ now' = now + dt
          /\ PlayerGot(get_events(args, now + dt))
    /\ UNCHANGED <<impl, segments, current_segment, pid, motors, pc, result, odom>>

\* Player::reset
PlayerReset ==
    /\ impl = "player" /\ hist.calls < MaxTicks + MaxEvents
    /\ args' = reset(args)
    /\ PlayerCalled("reset", hist.returned, hist.slices)
    /\ UNCHANGED <<impl, segments, current_segment, pid, motors, pc, result, odom, now, out>>

NextPlayer == PlayerPlay \/ PlayerGetEvents \/ PlayerReset

SpecPlayer == InitPlayer /\ [][NextPlayer]_vars

\* the call that just ran was a get_events
PolledPlayer == impl = "player" /\ hist'.calls = hist.calls + 1 /\ hist'.op = "get_events"

C34_Step ==
    PolledPlayer =>
        /\ args'.events = args.events
        /\ ~args.playing => (Unwrap(out').to = Unwrap(out').from /\ args' = args)
        /\ (args.playing /\ Unwrap(out').to > Unwrap(out').from) =>
              /\ Unwrap(out').from = Len(hist.returned)
              /\ Unwrap(out').to <= Len(args.events)
              /\ Unwrap(out').to = Len(args.events) <=> ~args'.playing

\* since the last play the events were returned in recording order, each once
C34_Returned ==
    impl = "player" => \A i \in DOMAIN hist.returned : hist.returned[i] = i

\* C34: across the get_events calls of one playback the returned slices are
\* consecutive ranges of the event list in recording order, so that each event
\* is returned once; the call that returns the last event leaves the player
\* Off with its events intact, and get_events on an Off player returns nothing
\* and changes nothing
C34_SlicesConsecutive == [][C34_Step]_vars /\ []C34_Returned

\* a playback of three events returned them in more than one call and is over
C34_Witness ==
    /\ impl = "player" /\ hist.op = "get_events"
    /\ ~args.playing /\ Len(args.events) = 3
    /\ hist.returned = <<1, 2, 3>> /\ hist.slices >= 2

-----------------------------------------------------------------------------
(* SpecBrain: the connection to the brain in the loop of robota.rs *)

\* the status packets of every brain state and autonomous program
BrainPackets ==
    { Packet({}, st, prog) : st \in {"Disabled", "Auton", "Driver"}, prog \in {0, 1} }

\* the time between two passes of the loop, in milliseconds
BrainDelays == {250, 600}

\* odom holds the Brain, args self.state, out the packet the last pass took;
\* hist holds the time of the last status packet, whether the connection was
\* given up since, and whether the last pass took the first packet after that
InitBrain ==
    /\ impl = "brain"
    /\ \E first \in BrainPackets : odom = BrainInit(first, first, 0)
    /\ args = "Off"
    /\ hist = [ticks |-> 0, packet_at |-> 0, lost |-> FALSE, recovered |-> FALSE]
    /\ now = 0
    /\ out = None
    /\ InputUnused

\* robota.rs main_loop 138-147: brain.update_state and self.state = new_state
BrainTick ==
    /\ impl = "brain" /\ hist.ticks < MaxTicks
    /\ \E dt \in BrainDelays, pkt \in {None} \cup {Some(p) : p \in BrainPackets} :
          /\ now' = now + dt
          /\ out' = pkt
          /\ odom' = update_state(odom, pkt, args, now + dt).brain
          /\ args' = update_state(odom, pkt, args, now + dt).state
          /\ hist' = [ticks |-> hist.ticks + 1,
                      packet_at |-> IF IsSome(pkt) THEN now + dt ELSE hist.packet_at,
                      lost |-> ~IsSome(pkt) /\
                               (hist.lost \/ (args # "Off" /\
                                     update_state(odom, pkt, args, now + dt).state = "Off")),
                      recovered |-> IsSome(pkt) /\ hist.lost]
    /\ UNCHANGED <<impl, segments, current_segment, pid, motors, pc, result>>

NextBrain == BrainTick

SpecBrain == InitBrain /\ [][NextBrain]_vars

C35_Step ==
    (impl = "brain" /\ hist'.ticks = hist.ticks + 1) =>
        /\ IsSome(out') =>
              /\ args' = from_brain_state(Unwrap(out').brain_state,
                                          Unwrap(out').auton_program # 0)
              /\ args' # "Off"
        /\ (out' = None /\ now' - hist.packet_at > BRAIN_TIMEOUT) => args' = "Off"
        /\ (out' = None /\ now' - hist.packet_at <= BRAIN_TIMEOUT) => args' = args

\* C35: Brain::update_state returns Off in a pass without a status packet once
\* more than BRAIN_TIMEOUT has passed since the last packet, returns the state
\* unchanged in a pass without a packet before that, and in a pass with a
\* packet returns the state derived from the packet, which is never Off
C35_TimeoutDetected == [][C35_Step]_vars

\* the connection was given up and the robot has left Off with the next packet
C35_Witness ==
    /\ impl = "brain" /\ hist.recovered /\ IsSome(out) /\ args = "AutonSkills"

-----------------------------------------------------------------------------
(* The odometry reset at the start of autonomous, under SpecLoop *)

\* the pass of robota.rs has just updated the state
StateUpdated == impl = "robota" /\ pc = "input" /\ pc' # "input"

C36_Step ==
    /\ StateUpdated =>
          (("reset" \in {hist'.order[i] : i \in DOMAIN hist'.order})
              <=> (args' # args /\ args' \in {"AutonSkills", "DriverAuton"}))
    /\ (impl = "robota" /\ ~StateUpdated) =>
          \A i \in DOMAIN hist'.order :
              (hist'.order[i] = "reset") => (i \in DOMAIN hist.order /\ hist.order[i] = "reset")

\* in a pass the reset comes before the position is computed and the path is
\* followed
C36_ResetFirst ==
    impl = "robota" =>
        \A i \in DOMAIN hist.order :
            hist.order[i] = "reset" =>
                ~\E j \in 1..(i - 1) : hist.order[j] \in {"odom", "follow", "other"}

\* C36: in every pass of main_loop in which the robot state changes from a
\* different state into AutonSkills or DriverAuton odom.reset() is called,
\* before odom.calc_position() and before the path is followed in that pass;
\* it is called in no other pass
C36_ResetAtAutonStart == [][C36_Step]_vars /\ []C36_ResetFirst

\* the odometry was reset in a pass that then followed the path, after a pass
\* in another state
C36_Witness ==
    /\ impl = "robota" /\ now > 0
    /\ hist.order = <<"input", "reset", "odom", "follow", "write">>

-----------------------------------------------------------------------------
(* SpecMotors: GlobalState::take_motor of state.rs *)

MotorPorts == 20

\* GlobalState::new: the motors of the ports 1..=20 (their reversed flags) and
\* taken_motors
GlobalStateNew ==
    [reversed |-> [port \in 1..MotorPorts |-> FALSE],
     taken_motors |-> [port \in 1..MotorPorts |-> FALSE]]

\* GlobalState::take_motor(&self, port, reversed): ret is the port of the
\* motor handed out, panic the message of the panic, None if there was none
take_motor(gs, port, reversed) ==
    IF ~(port \in 1..MotorPorts)
    THEN [state |-> gs, ret |-> None, panic |-> Some("Invalid motor port")]
    ELSE IF gs.taken_motors[port]
    THEN [state |-> gs, ret |-> None, panic |-> Some("Motor has already been taken")]
    ELSE [state |-> [gs EXCEPT !.reversed[port] = reversed],
          ret |-> Some(port), panic |-> None]

MaxTakes == 3

TakenPorts == {0, 1, 2, MotorPorts, MotorPorts + 1}

\* odom holds the GlobalState, args the arguments of the last call, out what
\* it returned or the message of its panic; hist lists the ports handed out
InitMotors ==
    /\ impl = "motors"
    /\ odom = GlobalStateNew
    /\ args = None
    /\ out = None
    /\ hist = [handed |-> <<>>]
    /\ now = 0
    /\ segments = <<>>
    /\ current_segment = None
    /\ pid = NewPid
    /\ motors = [m \in MotorIds |-> 0]
    /\ pc = "idle"
    /\ result = None

TookMotor(port, reversed, r) ==
    /\ args' = [port |-> port, reversed |-> reversed]
    /\ odom' = r.state
    /\ out' = IF IsSome(r.panic) THEN r.panic ELSE r.ret
    /\ pc' = IF IsSome(r.panic) THEN "panic" ELSE "idle"
    /\ hist' = [handed |-> IF IsSome(r.ret) THEN Append(hist.handed, port) ELSE hist.handed]

\* a part of the robot takes a motor
TakeMotor ==
    /\ impl = "motors" /\ pc = "idle" /\ now < MaxTakes
    /\ \E port \in TakenPorts, reversed \in BOOLEAN :
          TookMotor(port, reversed, take_motor(odom, port, reversed))
    /\ now' = now + 1
    /\ UNCHANGED <<impl, segments, current_segment, pid, motors, result>>

NextMotors == TakeMotor

SpecMotors == InitMotors /\ [][NextMotors]_vars

HandedOut(port) == \E i \in DOMAIN hist.handed : hist.handed[i] = port

C37_Step ==
    (impl = "motors" /\ now' = now + 1) =>
        /\ ~(args'.port \in 1..MotorPorts) => pc' = "panic"
        /\ HandedOut(args'.port) =>
              (pc' = "panic" /\ out' = Some("Motor has already been taken"))

\* C37: take_motor hands out each motor port at most once: a call for a port
\* that was handed out before panics with 'Motor has already been taken', and
\* a call for a port outside 1..=20 panics
C37_TakenOnce == [][C37_Step]_vars

\* the calls for ports outside 1..=20 panic, and a first call for a port
\* within hands the motor out
TakeMotorChecksPort ==
    [][(impl = "motors" /\ now' = now + 1) =>
          /\ ~(args'.port \in 1..MotorPorts) => pc' = "panic"
          /\ (args'.port \in 1..MotorPorts /\ ~HandedOut(args'.port))
                => (pc' = "idle" /\ out' = Some(args'.port))]_vars

-----------------------------------------------------------------------------
(* SpecTarget: Motor::set_target of motor.rs.  A voltage is an i16 in
   millivolts; a percent voltage is an f64, here finite in hundredths, or
   subnormal, infinite or NaN *)

VoltageLimit == 12000
PercentLimit == 100

\* motor.rs Target; v is the payload, an f64 record also for the i16 payloads
Target(tag, v) == [tag |-> tag, v |-> v]
TargetNone == Target("None", Finite(0))

\* i16::abs: -32768 has no absolute value in i16; a build with overflow checks
\* panics (None), a build without gives -32768 back
I16Abs(v, overflow_checks) ==
    IF v = -32768
    THEN IF overflow_checks THEN None ELSE Some(-32768)
    ELSE Some(Abs(v))

Clamp(v, lo, hi) == IF v < lo THEN lo ELSE IF v > hi THEN hi ELSE v

\* f64::is_normal: neither zero, subnormal, infinite nor NaN
is_normal(x) == x.kind = "finite" /\ x.value # 0
\* `*v != 0.0`
NotZero(x) == ~(x.kind = "finite" /\ x.value = 0)

\* what set_target leaves: the motor, and whether the call panicked
TargetSet(m, target) == [motor |-> [m EXCEPT !.target = target], panic |-> FALSE]
TargetKept(m, panic) == [motor |-> m, panic |-> panic]

\* Motor::set_target, Target::Voltage(v)
SetVoltage(m, v, overflow_checks) ==
    IF I16Abs(v, overflow_checks) = None
    THEN TargetKept(m, TRUE)
    ELSE IF Unwrap(I16Abs(v, overflow_checks)) > VoltageLimit
    THEN TargetSet(m, Target("Voltage", Finite(Clamp(v, -VoltageLimit, VoltageLimit))))
    ELSE TargetSet(m, Target("Voltage", Finite(v)))

\* Motor::set_target, Target::PercentVoltage(v)
SetPercentVoltage(m, x) ==
    IF ~is_normal(x) /\ NotZero(x)
    THEN TargetKept(m, FALSE)
    ELSE IF Abs(x.value) > PercentLimit
    THEN TargetSet(m, Target("PercentVoltage",
                             Finite(Clamp(x.value, -PercentLimit, PercentLimit))))
    ELSE TargetSet(m, Target("PercentVoltage", x))

\* Motor::set_target
set_target(m, target, overflow_checks) ==
    CASE target.tag = "Voltage" -> SetVoltage(m, target.v.value, overflow_checks)
      [] target.tag = "PercentVoltage" -> SetPercentVoltage(m, target.v)
      [] OTHER -> TargetSet(m, target)

MaxSets == 2

TargetInputs ==
    { Target("Voltage", Finite(v)) : v \in {-32768, -32767, -12001, -12000, 0, 12000, 12001, 32767} }
    \cup { Target("PercentVoltage", Finite(v)) : v \in {-250, -100, 0, 50, 100, 101} }
    \cup { Target("PercentVoltage", NonFinite(k)) : k \in {"subnormal", "inf", "-inf", "nan"} }
    \cup { Target("RotationalVelocity", Finite(200)), TargetNone }

\* odom holds the MotorInner, args the target and the build of the last call
InitTarget ==
    /\ impl = "target"
    /\ odom = [target |-> TargetNone]
    /\ args = None
    /\ out = None
    /\ hist = [calls |-> 0]
    /\ now = 0
    /\ segments = <<>>
    /\ current_segment = None
    /\ pid = NewPid
    /\ motors = [m \in MotorIds |-> 0]
    /\ pc = "idle"
    /\ result = None

TargetCalled(target, overflow_checks, r) ==
    /\ args' = [target |-> target, overflow_checks |-> overflow_checks]
    /\ odom' = r.motor
    /\ pc' = IF r.panic THEN "panic" ELSE "idle"
    /\ hist' = [calls |-> hist.calls + 1]

SetTarget ==
    /\ impl = "target" /\ pc = "idle" /\ hist.calls < MaxSets
    /\ \E target \in TargetInputs, overflow_checks \in BOOLEAN :
          TargetCalled(target, overflow_checks, set_target(odom, target, overflow_checks))
    /\ UNCHANGED <<impl, segments, current_segment, pid, motors, result, now, out>>

NextTarget == SetTarget

SpecTarget == InitTarget /\ [][NextTarget]_vars

TargetInRange(t) ==
    /\ t.tag = "Voltage" => (-VoltageLimit <= t.v.value /\ t.v.value <= VoltageLimit)
    /\ t.tag = "PercentVoltage" =>
          (t.v.kind = "finite" /\ -PercentLimit <= t.v.value /\ t.v.value <= PercentLimit)

InvalidPercent(t) ==
    t.tag = "PercentVoltage" /\ t.v.kind \in {"subnormal", "inf", "-inf", "nan"}

C38_Step ==
    (impl = "target" /\ hist'.calls = hist.calls + 1 /\ pc' = "idle") =>
        /\ TargetInRange(odom'.target)
        /\ InvalidPercent(args'.target) => odom'.target = odom.target

\* C38: after set_target returns the stored target is in range: a voltage
\* within [-12000, 12000] mV for every i16 input, a percent voltage within
\* [-1, 1], and a NaN, infinite or subnormal percent voltage leaves the stored
\* target as it was
C38_TargetInRange == [][C38_Step]_vars

\* the same for every i16 but i16::MIN, from a target in range
TargetInRangeButMin ==
    [][(/\ TargetInRange(odom.target)
        /\ args'.target.tag = "Voltage" => args'.target.v.value # -32768) => C38_Step]_vars

-----------------------------------------------------------------------------
(* SpecTriport: Triport handles of triports.rs on the shared AtomicU8 of the
   Brain, changed from several threads.  A call of change first chooses the
   method and then executes one atomic read-modify-write instruction; other
   threads run between the two. *)

TriportBits == 8

Pow2(i) == 2 ^ i
BitOf(byte, i) == (byte \div Pow2(i)) % 2

\* Brain::get_triport: the handle of port 1..=8 has the index port - 1
get_triport(port) == port - 1

\* fetch_or(1 << index), fetch_and(!(1 << index)), fetch_xor(1 << index) on the
\* value val of the byte
fetch_or(val, index) == IF BitOf(val, index) = 1 THEN val ELSE val + Pow2(index)
fetch_and_not(val, index) == IF BitOf(val, index) = 1 THEN val - Pow2(index) ELSE val
fetch_xor(val, index) ==
    IF BitOf(val, index) = 1 THEN val - Pow2(index) ELSE val + Pow2(index)

\* Triport::change: the new value of a byte of value val
Changed(val, index, change) ==
    CASE change = "Active" -> fetch_or(val, index)
      [] change = "Inactive" -> fetch_and_not(val, index)
      [] change = "Toggle" -> fetch_xor(val, index)

\* mutant: the instruction works on the value the thread read when it entered
\* the call
RmwReadsStale(current, loaded) == loaded

\* the value an atomic read-modify-write instruction works on: the value of
\* the byte at the instant of the instruction
RmwReads(current, loaded) == current

TriportChanges == {"Active", "Inactive", "Toggle"}
TriportThreads == {1, 2}
TriportPortsUsed == {1, 5, 8}
MaxChanges == 3

\* odom holds the shared byte, args the threads: the index of the handle of
\* each, the change it is executing (None if none) and the value of the byte
\* when it entered the call; hist counts the changes and holds the byte as the
\* changes executed so far, one after the other, leave it
InitTriport ==
    /\ impl = "triport"
    /\ odom = [triports |-> 0]
    /\ \E ports \in [TriportThreads -> TriportPortsUsed] :
          /\ \A a \in TriportThreads, b \in TriportThreads : a # b => ports[a] # ports[b]
          /\ args = [th \in TriportThreads |->
                        [index |-> get_triport(ports[th]), change |-> None, loaded |-> 0]]
    /\ hist = [changes |-> 0, expected |-> 0, last |-> 0]
    /\ now = 0
    /\ out = None
    /\ segments = <<>>
    /\ current_segment = None
    /\ pid = NewPid
    /\ motors = [m \in MotorIds |-> 0]
    /\ pc = "idle"
    /\ result = None

\* a thread calls Triport::change
TriportCall ==
    /\ impl = "triport" /\ hist.changes < MaxChanges
    /\ \E th \in TriportThreads, change \in TriportChanges :
          /\ args[th].change = None
          /\ args' = [args EXCEPT ![th].change = Some(change),
                                  ![th].loaded = odom.triports]
          /\ hist' = [hist EXCEPT !.changes = @ + 1, !.last = 0]
    /\ UNCHANGED <<impl, odom, now, out, segments, current_segment, pid, motors, pc, result>>

\* the atomic instruction of set_active, set_inactive or toggle
TriportApply ==
    /\ impl = "triport"
    /\ \E th \in TriportThreads :
          /\ IsSome(args[th].change)
          /\ odom' = [triports |-> Changed(RmwReads(odom.triports, args[th].loaded),
                                           args[th].index, Unwrap(args[th].change))]
          /\ hist' = [hist EXCEPT !.expected = Changed(@, args[th].index,
                                                       Unwrap(args[th].change)),
                                  !.last = th]
          /\ out' = args[th].change
          /\ args' = [args EXCEPT ![th].change = None]
    /\ UNCHANGED <<impl, now, segments, current_segment, pid, motors, pc, result>>

NextTriport == TriportCall \/ TriportApply

SpecTriport == InitTriport /\ [][NextTriport]_vars

\* the thread th has just executed its instruction
Applied(th) == impl = "triport" /\ hist'.last = th /\ IsSome(args[th].change) /\ args'[th].change = None

C39_Step ==
    \A th \in TriportThreads :
        Applied(th) =>
            /\ \A i \in 0..(TriportBits - 1) :
                  i # args[th].index => BitOf(odom'.triports, i) = BitOf(odom.triports, i)
            /\ Unwrap(args[th].change) = "Active" => BitOf(odom'.triports, args[th].index) = 1
            /\ Unwrap(args[th].change) = "Inactive" => BitOf(odom'.triports, args[th].index) = 0
            /\ Unwrap(args[th].change) = "Toggle" =>
                  BitOf(odom'.triports, args[th].index) = 1 - BitOf(odom.triports, args[th].index)

\* no change is lost: the byte is what the changes executed so far leave
C39_NoneLost == impl = "triport" => odom.triports = hist.expected

\* C39: Triport::change on the index i changes bit i of the shared byte only
\* (Active sets it, Inactive clears it, Toggle flips it) and leaves the other
\* seven bits as they are, also when handles of different ports are changed
\* from different threads at the same time: no change of another bit is lost
C39_OnlyOwnBit == [][C39_Step]_vars /\ []C39_NoneLost

\* a thread executed its change after another thread, which had entered its
\* call later, had changed another bit in between
C39_Witness ==
    /\ impl = "triport" /\ hist.last # 0
    /\ args[hist.last].loaded # hist.expected
    /\ \E i \in 0..(TriportBits - 1) :
          i # args[hist.last].index /\ BitOf(odom.triports, i) = 1
                                   /\ BitOf(args[hist.last].loaded, i) = 0
    /\ BitOf(odom.triports, args[hist.last].index) = 1


====
